---- MODULE Spec2Model ----
(***************************************************************************)
(* Model of erlcgo (bmrgcorp/erlcgo): the request coalescer (group.Do),    *)
(* the in-memory response cache (MemoryCache), the rate limiter            *)
(* (RateLimiter and the response handling of Client.doRequest/execute),    *)
(* the request queue (RequestQueue) and the request pipeline               *)
(* (Client.doRequest).                                                     *)
(*                                                                         *)
(* Each component has its own variables, its own initial predicate and     *)
(* its own specification; the variables of the other components stay at    *)
(* their initial values under a component's specification.                 *)
(*   SpecGroup   : group.Do called concurrently                            *)
(*   SpecCache   : MemoryCache Get/Set/Delete/cleanupLoop against a clock  *)
(*   SpecLimiter : RateLimiter.UpdateFromHeaders/ShouldWait called directly*)
(*   SpecRL      : execute, from the rate-limit wait to the feedback       *)
(*   SpecQueue   : RequestQueue Start/Stop/worker/Enqueue                  *)
(*   SpecQueueLive : SpecQueue under fair scheduling                       *)
(*   SpecPipe    : Client.doRequest, composed of the components' steps     *)
(*   SpecCoal    : Client.doRequest of a client with a request queue       *)
(*   SpecCancel  : SpecCoal with request contexts that may be cancelled    *)
(*   SpecSub     : a Subscription: poll goroutine, dispatch goroutine      *)
(*   SpecSubLive : SpecSub under fair scheduling                           *)
(*   SpecClose   : Client.Close and MemoryCache.Close on a built client    *)
(*   SpecOpt     : the queue options of NewClient, and Client.Close        *)
(*   SpecMetrics : the counters of ClientMetrics, updated by doRequest     *)
(***************************************************************************)
EXTENDS Integers, Sequences, FiniteSets, TLC

(***************************************************************************)
(* Shared values                                                           *)
(***************************************************************************)
\* the nil interface value / absent map entry
Nil == "nil"

(***************************************************************************)
(* group.Do  (src/unnamed/part_000:345-379)                                *)
(***************************************************************************)
\* goroutines calling group.Do
Callers == {"a", "b", "c"}
\* keys passed to group.Do (request URLs)
Keys == {"k1", "k2"}
\* number of call objects (new(call)) a behaviour may allocate
MaxCalls == 3
\* (val, err) pairs fn may return: two different bodies and one error
FnResults == {<<"body1", Nil>>, <<"body2", Nil>>, <<Nil, "err">>}
\* c.val, c.err of a call whose fn has not returned
NoResult == <<Nil, Nil>>

VARIABLES
    gm,       \* g.m: key -> call object (0: no entry)
    calls,    \* heap of call objects: id -> [done (wg counter is 0), res (val, err)]
    ncalls,   \* number of call objects allocated so far
    dpc,      \* where each caller is inside Do
    dkey,     \* the key of the caller's current Do
    dcall,    \* the call object the caller holds (c)
    dret,     \* what the caller's Do returned
    fnRuns,   \* history: how many times fn ran on behalf of each call object
    dstale    \* history: the caller found an entry whose completion was already signalled

groupVars == <<gm, calls, ncalls, dpc, dkey, dcall, dret, fnRuns, dstale>>

InitGroup ==
    /\ gm = [k \in Keys |-> 0]
    /\ calls = [c \in 1..MaxCalls |-> [done |-> FALSE, res |-> NoResult]]
    /\ ncalls = 0
    /\ dpc = [p \in Callers |-> "idle"]
    /\ dkey = [p \in Callers |-> "k1"]
    /\ dcall = [p \in Callers |-> 0]
    /\ dret = [p \in Callers |-> NoResult]
    /\ fnRuns = [c \in 1..MaxCalls |-> 0]
    /\ dstale = [p \in Callers |-> FALSE]

\* a lookup that never finds the entry: every caller registers and runs fn
LookupNever(mm, key) == 0

\* c, ok := g.m[key]   (0 when !ok)
Lookup(mm, key) == mm[key]

\* g.mu.Lock(); if c, ok := g.m[key]; ok { g.mu.Unlock(); -> c.wg.Wait() }
\* else: c := new(call); c.wg.Add(1); g.m[key] = c; g.mu.Unlock()
DoLock(p, k) ==
    /\ dpc[p] \in {"idle", "ret"}
    /\ dkey' = [dkey EXCEPT ![p] = k]
    /\ dret' = [dret EXCEPT ![p] = NoResult]
    /\ LET c == Lookup(gm, k) IN
       IF c # 0
       THEN /\ dcall' = [dcall EXCEPT ![p] = c]
            /\ dpc' = [dpc EXCEPT ![p] = "wait"]
            /\ dstale' = [dstale EXCEPT ![p] = calls[c].done]
            /\ UNCHANGED <<gm, calls, ncalls>>
       ELSE /\ ncalls < MaxCalls
            /\ ncalls' = ncalls + 1
            /\ calls' = [calls EXCEPT ![ncalls + 1] = [done |-> FALSE, res |-> NoResult]]
            /\ gm' = [gm EXCEPT ![k] = ncalls + 1]
            /\ dcall' = [dcall EXCEPT ![p] = ncalls + 1]
            /\ dpc' = [dpc EXCEPT ![p] = "exec"]
            /\ dstale' = [dstale EXCEPT ![p] = FALSE]
    /\ UNCHANGED fnRuns

\* c.val, c.err = fn(); c.wg.Done()
DoFn(p, r) ==
    /\ dpc[p] = "exec"
    /\ calls' = [calls EXCEPT ![dcall[p]] = [done |-> TRUE, res |-> r]]
    /\ fnRuns' = [fnRuns EXCEPT ![dcall[p]] = @ + 1]
    /\ dpc' = [dpc EXCEPT ![p] = "signalled"]
    /\ UNCHANGED <<gm, ncalls, dkey, dcall, dret, dstale>>

\* a caller that returns its result and leaves its entry in g.m
DoDeleteKeep(p) ==
    /\ dpc[p] = "signalled"
    /\ dret' = [dret EXCEPT ![p] = calls[dcall[p]].res]
    /\ dpc' = [dpc EXCEPT ![p] = "ret"]
    /\ UNCHANGED <<gm, calls, ncalls, dkey, dcall, fnRuns, dstale>>

\* g.mu.Lock(); delete(g.m, key); g.mu.Unlock(); return c.val, c.err
DoDelete(p) ==
    /\ dpc[p] = "signalled"
    /\ gm' = [gm EXCEPT ![dkey[p]] = 0]
    /\ dret' = [dret EXCEPT ![p] = calls[dcall[p]].res]
    /\ dpc' = [dpc EXCEPT ![p] = "ret"]
    /\ UNCHANGED <<calls, ncalls, dkey, dcall, fnRuns, dstale>>

\* c.wg.Wait(); return c.val, c.err
DoWait(p) ==
    /\ dpc[p] = "wait"
    /\ calls[dcall[p]].done
    /\ dret' = [dret EXCEPT ![p] = calls[dcall[p]].res]
    /\ dpc' = [dpc EXCEPT ![p] = "ret"]
    /\ UNCHANGED <<gm, calls, ncalls, dkey, dcall, fnRuns, dstale>>

(***************************************************************************)
(* MemoryCache  (src/cache.go)                                             *)
(***************************************************************************)
\* the clock (time.Now()) starts at 0 and advances by whole units up to MaxTicks
MaxTicks == 3
\* goroutines using the cache
CacheUsers == {"a", "b"}
\* cache keys (Prefix + request URL)
CacheKeys == {"k1"}
\* values stored in the cache
CacheValues == {"v1", "v2"}
\* ttl arguments of Set: negative, zero and positive
TTLs == {-1, 0, 2}
\* the absent map entry of c.items
NoItem == [present |-> FALSE, value |-> Nil, expiration |-> 0]
\* no Set of the key is in force (never set, or deleted by Delete)
NoSet == [set |-> FALSE, val |-> Nil, at |-> 0, ttl |-> 0]
\* a Get that has not returned
NoGet == <<"pending", FALSE>>
\* no call of the eviction callback
NoEvict == [n |-> 0, val |-> Nil]

VARIABLES
    clock,      \* time.Now()
    items,      \* c.items: key -> cacheItem
    stopClosed, \* c.stopCh is closed
    stopCloses, \* history: how many times close(c.stopCh) ran
    loopPc,     \* the cleanupLoop goroutine: "running" or "exited"
    cpc,        \* where each user is inside Get: "idle", or "upgrade" (between RUnlock and Lock)
    ckey,       \* the key of the user's last Get
    cres,       \* what the user's last Get returned: <<value, found>>
    cnow,       \* history: time.Now() of the Get's expiry check under the read lock
    cvalid,     \* history: no Set/Delete of ckey since that check
    cclosed,    \* history: stopCh was closed when the user's last Get began
    lastSet,    \* history: the last Set of each key not followed by Delete
    evicts,     \* history: per key, the c.onEvict calls since the last Set or Delete
                \* of the key (how many, and the value of the last one)
    ckept       \* history: per user, its last Get found under the write lock an
                \* entry that it left in the table

cacheVars == <<clock, items, stopClosed, stopCloses, loopPc, cpc, ckey, cres, cnow, cvalid, cclosed, lastSet, evicts, ckept>>

\* NewMemoryCache: empty items, open stopCh, cleanupLoop started
InitCache ==
    /\ clock = 0
    /\ items = [k \in CacheKeys |-> NoItem]
    /\ stopClosed = FALSE
    /\ stopCloses = 0
    /\ loopPc = "running"
    /\ cpc = [u \in CacheUsers |-> "idle"]
    /\ ckey = [u \in CacheUsers |-> "k1"]
    /\ cres = [u \in CacheUsers |-> NoGet]
    /\ cnow = [u \in CacheUsers |-> 0]
    /\ cvalid = [u \in CacheUsers |-> FALSE]
    /\ cclosed = [u \in CacheUsers |-> FALSE]
    /\ lastSet = [k \in CacheKeys |-> NoSet]
    /\ evicts = [k \in CacheKeys |-> NoEvict]
    /\ ckept = [u \in CacheUsers |-> FALSE]

\* an expiry test that never fires
ExpiredNever(item, now) == FALSE

\* time.Now().After(item.expiration)
Expired(item, now) == now > item.expiration

\* &cacheItem{value: value, expiration: time.Now().Add(ttl)}
NewItem(value, ttl, now) == [present |-> TRUE, value |-> value, expiration |-> now + ttl]

\* the passage of time
Tick ==
    /\ clock < MaxTicks
    /\ clock' = clock + 1
    /\ UNCHANGED <<items, stopClosed, stopCloses, loopPc, cpc, ckey, cres, cnow, cvalid, cclosed, lastSet, evicts, ckept>>

\* MemoryCache.Set: c.mu.Lock(); c.items[key] = &cacheItem{...}
Set(u, k, v, ttl) ==
    /\ cpc[u] = "idle"
    /\ items' = [items EXCEPT ![k] = NewItem(v, ttl, clock)]
    /\ lastSet' = [lastSet EXCEPT ![k] = [set |-> TRUE, val |-> v, at |-> clock, ttl |-> ttl]]
    /\ evicts' = [evicts EXCEPT ![k] = NoEvict]
    /\ cvalid' = [w \in CacheUsers |-> cvalid[w] /\ ckey[w] # k]
    /\ UNCHANGED <<clock, stopClosed, stopCloses, loopPc, cpc, ckey, cres, cnow, cclosed, ckept>>

\* MemoryCache.Delete: c.mu.Lock(); delete(c.items, key)
Delete(u, k) ==
    /\ cpc[u] = "idle"
    /\ items' = [items EXCEPT ![k] = NoItem]
    /\ lastSet' = [lastSet EXCEPT ![k] = NoSet]
    /\ evicts' = [evicts EXCEPT ![k] = NoEvict]
    /\ cvalid' = [w \in CacheUsers |-> cvalid[w] /\ ckey[w] # k]
    /\ UNCHANGED <<clock, stopClosed, stopCloses, loopPc, cpc, ckey, cres, cnow, cclosed, ckept>>

\* MemoryCache.Get under the read lock: absent -> (nil, false); expired -> release
\* the read lock and go for the write lock; otherwise -> (item.value, true)
GetRLock(u, k) ==
    /\ cpc[u] = "idle"
    /\ ckey' = [ckey EXCEPT ![u] = k]
    /\ cnow' = [cnow EXCEPT ![u] = clock]
    /\ cvalid' = [cvalid EXCEPT ![u] = TRUE]
    /\ cclosed' = [cclosed EXCEPT ![u] = stopClosed]
    /\ IF ~items[k].present
       THEN /\ cres' = [cres EXCEPT ![u] = <<Nil, FALSE>>]
            /\ cpc' = cpc
       ELSE IF Expired(items[k], clock)
       THEN /\ cres' = [cres EXCEPT ![u] = NoGet]
            /\ cpc' = [cpc EXCEPT ![u] = "upgrade"]
       ELSE /\ cres' = [cres EXCEPT ![u] = <<items[k].value, TRUE>>]
            /\ cpc' = cpc
    /\ ckept' = [ckept EXCEPT ![u] = FALSE]
    /\ UNCHANGED <<clock, items, stopClosed, stopCloses, loopPc, lastSet, evicts>>

\* c.onEvict(key, item.value): one more call, with the item's value
OnEvict(ev, item) == [n |-> ev.n + 1, val |-> item.value]

\* a Get that deletes and reports without looking at the table again
RecheckNone(item, now) == TRUE

\* a Get that looks again only whether the key is there
RecheckExists(item, now) == item.present

\* Get's second look under the write lock: the key is still there and its item
\* is expired
Recheck(item, now) == item.present /\ Expired(item, now)

\* MemoryCache.Get under the write lock: delete the key if it still maps to an
\* expired item and call the eviction callback, then return (nil, false)
GetLock(u) ==
    /\ cpc[u] = "upgrade"
    /\ items' = IF Recheck(items[ckey[u]], clock)
                THEN [items EXCEPT ![ckey[u]] = NoItem]
                ELSE items
    /\ evicts' = IF Recheck(items[ckey[u]], clock)
                 THEN [evicts EXCEPT ![ckey[u]] = OnEvict(@, items[ckey[u]])]
                 ELSE evicts
    /\ ckept' = [ckept EXCEPT ![u] = items[ckey[u]].present /\ ~Recheck(items[ckey[u]], clock)]
    /\ cres' = [cres EXCEPT ![u] = <<Nil, FALSE>>]
    /\ cpc' = [cpc EXCEPT ![u] = "idle"]
    /\ UNCHANGED <<clock, stopClosed, stopCloses, loopPc, ckey, cnow, cvalid, cclosed, lastSet>>

\* cleanupLoop, case <-ticker.C: remove every expired item under the write lock
\* and call the eviction callback for each
cleanupLoop ==
    /\ loopPc = "running"
    /\ items' = [k \in CacheKeys |->
                    IF items[k].present /\ Expired(items[k], clock) THEN NoItem ELSE items[k]]
    /\ evicts' = [k \in CacheKeys |->
                    IF items[k].present /\ Expired(items[k], clock)
                    THEN OnEvict(evicts[k], items[k]) ELSE evicts[k]]
    /\ UNCHANGED <<clock, stopClosed, stopCloses, loopPc, cpc, ckey, cres, cnow, cvalid, cclosed, lastSet, ckept>>

\* cleanupLoop, case <-c.stopCh: return
cleanupLoopExit ==
    /\ loopPc = "running"
    /\ stopClosed
    /\ loopPc' = "exited"
    /\ UNCHANGED <<clock, items, stopClosed, stopCloses, cpc, ckey, cres, cnow, cvalid, cclosed, lastSet, evicts, ckept>>

\* a Once that runs its function on every call
OnceDoneNever(closed) == FALSE

\* c.stopOnce has run its function: only Close uses it, so that is when stopCh
\* is closed
OnceDone(closed) == closed

\* a Close that also empties the item table
CloseAndClear ==
    /\ stopClosed' = TRUE
    /\ stopCloses' = IF OnceDone(stopClosed) THEN stopCloses ELSE stopCloses + 1
    /\ items' = [k \in CacheKeys |-> NoItem]
    /\ UNCHANGED <<clock, loopPc, cpc, ckey, cres, cnow, cvalid, cclosed, lastSet, evicts, ckept>>

\* MemoryCache.Close: c.stopOnce.Do(func() { close(c.stopCh) })
Close ==
    /\ stopClosed' = TRUE
    /\ stopCloses' = IF OnceDone(stopClosed) THEN stopCloses ELSE stopCloses + 1
    /\ UNCHANGED <<clock, items, loopPc, cpc, ckey, cres, cnow, cvalid, cclosed, lastSet, evicts, ckept>>

(***************************************************************************)
(* RateLimiter and the response handling of execute                        *)
(* (src/client.go:369-397, src/ratelimit_meta.go, src/retry_after.go,      *)
(*  src/unnamed/part_000:154-220)                                          *)
(***************************************************************************)
\* goroutines running execute
Requests == {"a", "b"}
\* rate-limit buckets a caller may ask about; execute only uses "global"
Buckets == {"global", "other"}
\* the zero time.Time (RateLimitInfo.ResetAt left unset): before every clock value
ZeroTime == -1000
\* the fixed fallback delay of a 429 without retry-after information, in clock units
FallbackDelay == 5
\* http.StatusOK, http.StatusTooManyRequests
StatusOK == 200
StatusTooManyRequests == 429
\* a header: absent (h.Get returns ""), not a number, a number, or an HTTP date
HAbsent == [k |-> "absent", n |-> 0]
HBad == [k |-> "bad", n |-> 0]
HNum(n) == [k |-> "num", n |-> n]
HDate(t) == [k |-> "date", n |-> t]
\* response bodies: empty, or a JSON object with retry_after (0 when the field is
\* missing) and bucket ("" when missing); kind "text" is a body that is no JSON object
Bodies ==
    {[kind |-> "empty", retry_after |-> 0, bucket |-> ""],
     [kind |-> "json", retry_after |-> 2, bucket |-> ""],
     [kind |-> "json", retry_after |-> 0, bucket |-> "b1"],
     [kind |-> "json", retry_after |-> 2, bucket |-> "b1"]}
\* the X-RateLimit-* headers of a response: none, all four (no budget left, or
\* some), only the limit, malformed values
RateLimitHeaders ==
    {[bucket |-> "", limit |-> HAbsent, remaining |-> HAbsent, reset |-> HAbsent],
     [bucket |-> "b1", limit |-> HNum(10), remaining |-> HNum(0), reset |-> HNum(2)],
     [bucket |-> "b1", limit |-> HNum(10), remaining |-> HNum(3), reset |-> HNum(2)],
     [bucket |-> "", limit |-> HNum(10), remaining |-> HAbsent, reset |-> HAbsent],
     [bucket |-> "", limit |-> HAbsent, remaining |-> HBad, reset |-> HBad]}
\* the Retry-After header: absent, integer seconds, an HTTP date
RetryAfterHeaders == {HAbsent, HNum(2), HDate(3)}
\* httpClient.Do returned an error: no response
TransportError ==
    [status |-> 0, bucket |-> "", limit |-> HAbsent, remaining |-> HAbsent, reset |-> HAbsent,
     retryAfter |-> HAbsent, body |-> [kind |-> "empty", retry_after |-> 0, bucket |-> ""]]
\* the responses of the upstream service
Responses ==
    {[status |-> st, bucket |-> h.bucket, limit |-> h.limit, remaining |-> h.remaining,
      reset |-> h.reset, retryAfter |-> ra, body |-> b] :
        st \in {StatusOK, StatusTooManyRequests}, h \in RateLimitHeaders,
        ra \in RetryAfterHeaders, b \in Bodies}
    \cup {TransportError}
\* no rate limit recorded for a bucket (rl.limits has no such key)
NoLimit == [exists |-> FALSE, Limit |-> 0, Remaining |-> 0, Reset |-> 0]
\* nil *time.Duration / nil *RateLimitInfo
NoDuration == [some |-> FALSE, d |-> 0]
NoRateLimitInfo == [some |-> FALSE, Bucket |-> "", Limit |-> 0, Remaining |-> 0, ResetAt |-> ZeroTime]
\* no response handled yet
NoResponse == [status |-> -1, rateLimitHeaders |-> FALSE, rateLimitComplete |-> FALSE,
               bodyBucket |-> FALSE, retryInfo |-> FALSE, ra |-> NoDuration]

VARIABLES
    limits,      \* rl.limits: bucket -> RateLimit
    xpc,         \* where each request is inside execute: "idle", "sleep", "http", "done"
    xwake,       \* the instant the request's time.Sleep(wait) ends
    xslept,      \* history: the request slept before its HTTP call
    sw,          \* history: the last ShouldWait call: bucket, clock, the state it read, result
    lastResp,    \* history: what the last response execute handled carried
    lastRespAt   \* history: the clock when it was handled

rlVars == <<limits, xpc, xwake, xslept, sw, lastResp, lastRespAt>>

\* NewRateLimiter: an empty limits map
InitRL ==
    /\ limits = [b \in Buckets |-> NoLimit]
    /\ xpc = [r \in Requests |-> "idle"]
    /\ xwake = [r \in Requests |-> 0]
    /\ xslept = [r \in Requests |-> FALSE]
    /\ sw = [called |-> FALSE, bucket |-> "global", now |-> 0, seen |-> NoLimit,
             d |-> 0, ok |-> FALSE]
    /\ lastResp = NoResponse
    /\ lastRespAt = 0

\* strconv.Atoi / strconv.ParseInt of a header value
Atoi(h) == [ok |-> h.k = "num", v |-> h.n]

\* parseRateLimitHeaders: nil when the four headers are all empty; otherwise the
\* fields that parse, the others left at their zero values
parseRateLimitHeaders(resp) ==
    IF resp.bucket = "" /\ resp.limit.k = "absent" /\ resp.remaining.k = "absent"
       /\ resp.reset.k = "absent"
    THEN NoRateLimitInfo
    ELSE [some |-> TRUE,
          Bucket |-> resp.bucket,
          Limit |-> IF Atoi(resp.limit).ok THEN Atoi(resp.limit).v ELSE 0,
          Remaining |-> IF Atoi(resp.remaining).ok THEN Atoi(resp.remaining).v ELSE 0,
          ResetAt |-> IF Atoi(resp.reset).ok THEN Atoi(resp.reset).v ELSE ZeroTime]

\* parseRetryAfter: the body's retry_after when the body is a JSON object and the
\* value is positive
parseRetryAfter(body) ==
    IF body.kind # "json" \/ body.retry_after <= 0
    THEN NoDuration
    ELSE [some |-> TRUE, d |-> body.retry_after]

\* parseRetryAfterHeader: integer seconds, or the time until an HTTP date (not below 0)
parseRetryAfterHeader(h, now) ==
    IF h.k = "absent" THEN NoDuration
    ELSE IF Atoi(h).ok THEN [some |-> TRUE, d |-> Atoi(h).v]
    ELSE IF h.k = "date" THEN [some |-> TRUE, d |-> IF h.n - now < 0 THEN 0 ELSE h.n - now]
    ELSE NoDuration

\* parseRateLimitBucket: the body's bucket when the body is a JSON object
parseRateLimitBucket(body) == IF body.kind = "json" THEN body.bucket ELSE ""

\* ra of execute: nil unless the status is 429; the body first, then the header
RetryAfterOf(resp, now) ==
    IF resp.status # StatusTooManyRequests THEN NoDuration
    ELSE IF parseRetryAfter(resp.body).some THEN parseRetryAfter(resp.body)
    ELSE parseRetryAfterHeader(resp.retryAfter, now)

\* rl of execute: parseRateLimitHeaders, with the bucket taken from a 429's body
\* when the headers gave none
RateLimitOf(resp) ==
    LET rl == parseRateLimitHeaders(resp)
        bucket == parseRateLimitBucket(resp.body)
    IN  IF resp.status = StatusTooManyRequests /\ (~rl.some \/ rl.Bucket = "") /\ bucket # ""
        THEN IF ~rl.some
             THEN [NoRateLimitInfo EXCEPT !.some = TRUE, !.Bucket = bucket]
             ELSE [rl EXCEPT !.Bucket = bucket]
        ELSE rl

\* RateLimiter.UpdateFromHeaders: rl.limits[bucket] = &RateLimit{...}
UpdateFromHeaders(lim, bucket, limit, remaining, reset) ==
    [lim EXCEPT ![bucket] =
        [exists |-> TRUE, Limit |-> limit, Remaining |-> remaining, Reset |-> reset]]

\* a ShouldWait that also answers "wait" when the reset instant is now
ShouldWaitAtReset(lim, bucket, now) ==
    IF ~lim[bucket].exists THEN [d |-> 0, ok |-> FALSE]
    ELSE IF lim[bucket].Remaining <= 0 /\ lim[bucket].Reset - now >= 0
    THEN [d |-> lim[bucket].Reset - now, ok |-> TRUE]
    ELSE [d |-> 0, ok |-> FALSE]

\* RateLimiter.ShouldWait
ShouldWait(lim, bucket, now) ==
    IF ~lim[bucket].exists THEN [d |-> 0, ok |-> FALSE]
    ELSE IF lim[bucket].Remaining <= 0 /\ lim[bucket].Reset - now > 0
    THEN [d |-> lim[bucket].Reset - now, ok |-> TRUE]
    ELSE [d |-> 0, ok |-> FALSE]

\* the rate-limiter update of execute after a response (part_000:210-220)
LimitsAfter(lim, resp, now) ==
    LET rl == RateLimitOf(resp)
        ra == RetryAfterOf(resp, now)
    IN  IF rl.some
        THEN UpdateFromHeaders(lim, "global", rl.Limit, rl.Remaining, rl.ResetAt)
        ELSE IF resp.status = StatusTooManyRequests
        THEN IF ra.some
             THEN UpdateFromHeaders(lim, "global", 0, 0, now + ra.d)
             ELSE UpdateFromHeaders(lim, "global", 0, 0, now + FallbackDelay)
        ELSE lim

\* what a handled response carried: its status, whether any X-RateLimit-* header
\* was present, whether all four were present with numeric limit, remaining and
\* reset, whether its body named a bucket, whether it had retry-after
\* information (a Retry-After header or a positive retry_after in a JSON body),
\* and the retry-after duration execute computed (ra)
Carried(resp, now) ==
    [status |-> resp.status,
     rateLimitHeaders |-> ~(resp.bucket = "" /\ resp.limit = HAbsent
                            /\ resp.remaining = HAbsent /\ resp.reset = HAbsent),
     rateLimitComplete |-> resp.bucket # "" /\ resp.limit.k = "num"
                           /\ resp.remaining.k = "num" /\ resp.reset.k = "num",
     bodyBucket |-> resp.body.kind = "json" /\ resp.body.bucket # "",
     retryInfo |-> resp.retryAfter # HAbsent
                   \/ (resp.body.kind = "json" /\ resp.body.retry_after > 0),
     ra |-> RetryAfterOf(resp, now)]

\* a caller feeds the limiter directly: RateLimiter.UpdateFromHeaders(bucket, ...)
UpdateCall(b, limit, remaining, reset) ==
    /\ limits' = UpdateFromHeaders(limits, b, limit, remaining, reset)
    /\ UNCHANGED <<xpc, xwake, xslept, sw, lastResp, lastRespAt>>

\* a caller asks the limiter directly: RateLimiter.ShouldWait(bucket)
ShouldWaitCall(b) ==
    /\ sw' = [called |-> TRUE, bucket |-> b, now |-> clock, seen |-> limits[b],
              d |-> ShouldWait(limits, b, clock).d, ok |-> ShouldWait(limits, b, clock).ok]
    /\ UNCHANGED <<limits, xpc, xwake, xslept, lastResp, lastRespAt>>

\* execute: if wait, shouldWait := ShouldWait("global"); shouldWait { time.Sleep(wait) }
ExecBegin(r) ==
    /\ xpc[r] = "idle"
    /\ LET w == ShouldWait(limits, "global", clock) IN
       /\ xpc' = [xpc EXCEPT ![r] = IF w.ok THEN "sleep" ELSE "http"]
       /\ xwake' = [xwake EXCEPT ![r] = IF w.ok THEN clock + w.d ELSE 0]
       /\ xslept' = [xslept EXCEPT ![r] = w.ok]
    /\ UNCHANGED <<limits, sw, lastResp, lastRespAt>>

\* time.Sleep(wait) returns once the duration has elapsed
ExecSleep(r) ==
    /\ xpc[r] = "sleep"
    /\ clock >= xwake[r]
    /\ xpc' = [xpc EXCEPT ![r] = "http"]
    /\ xwake' = [xwake EXCEPT ![r] = 0]
    /\ UNCHANGED <<limits, xslept, sw, lastResp, lastRespAt>>

\* resp, err := c.httpClient.Do(req), then the rate-limit feedback; a transport
\* error returns before it
ExecHttp(r, resp) ==
    /\ xpc[r] = "http"
    /\ xpc' = [xpc EXCEPT ![r] = "done"]
    /\ lastResp' = Carried(resp, clock)
    /\ lastRespAt' = clock
    /\ limits' = IF resp.status = 0 THEN limits ELSE LimitsAfter(limits, resp, clock)
    /\ UNCHANGED <<xwake, xslept, sw>>

\* execute returns
ExecReturn(r) ==
    /\ xpc[r] = "done"
    /\ xpc' = [xpc EXCEPT ![r] = "idle"]
    /\ xslept' = [xslept EXCEPT ![r] = FALSE]
    /\ UNCHANGED <<limits, xwake, sw, lastResp, lastRespAt>>

(***************************************************************************)
(* RequestQueue  (src/unnamed/part_002)                                    *)
(***************************************************************************)
\* goroutines calling Enqueue, one job each
Enqueuers == {"a", "b"}
\* the worker goroutines of the first Start and of a Start after a Stop
\* (q.workers = 1)
Workers1 == {"w1"}
Workers2 == {"w2"}
Workers == Workers1 \cup Workers2
\* capacity of the backlog channel q.queue (50 in NewRequestQueue), scaled down
QueueCap == 1
\* the error values an action may return: nil or an error
ActionResults == {Nil, "apiErr"}
\* ctx.Err() of a cancelled context
CtxErr == "ctxErr"

VARIABLES
    qbuf,      \* q.queue: the jobs in the backlog, by enqueuer
    running,   \* q.running
    qstop,     \* q.stop is closed
    qpanic,    \* close(q.stop) ran on a closed channel: the program panicked
    starts,    \* how many times Start spawned workers
    wpc,       \* each worker: "off", "select", "got", "run", "tick", "exited"
    wjob,      \* the job the worker dequeued (req)
    tickBuf,   \* ticker.C of the worker holds a tick
    epc,       \* each enqueuer: "idle", "select", "await", "ret"
    ectx,      \* the enqueuer's ctx is cancelled
    eresp,     \* req.response: a channel of capacity 1
    eret,      \* what Enqueue returned
    eran,      \* history: how many times the job's action was executed
    eact,      \* history: what the action returned
    ecancel,   \* history: where the job was when its ctx was cancelled
    wpace,     \* history, per worker: "never" executed a job, or its ticker has
               \* "fired" or not ("nofire") since it last started to execute one
    esent      \* history: how many sends on req.response the workers made

queueVars == <<qbuf, running, qstop, qpanic, starts, wpc, wjob, tickBuf,
               epc, ectx, eresp, eret, eran, eact, ecancel, wpace, esent>>

\* NewRequestQueue: an empty backlog, an open stop channel, not running
InitQueue ==
    /\ qbuf = <<>>
    /\ running = FALSE
    /\ qstop = FALSE
    /\ qpanic = FALSE
    /\ starts = 0
    /\ wpc = [w \in Workers |-> "off"]
    /\ wjob = [w \in Workers |-> "a"]
    /\ tickBuf = [w \in Workers |-> FALSE]
    /\ epc = [e \in Enqueuers |-> "idle"]
    /\ ectx = [e \in Enqueuers |-> FALSE]
    /\ eresp = [e \in Enqueuers |-> <<>>]
    /\ eret = [e \in Enqueuers |-> "none"]
    /\ eran = [e \in Enqueuers |-> 0]
    /\ eact = [e \in Enqueuers |-> "none"]
    /\ ecancel = [e \in Enqueuers |-> "none"]
    /\ wpace = [w \in Workers |-> "never"]
    /\ esent = [e \in Enqueuers |-> 0]

\* a backlog that always takes one more job
HasRoomAlways(buf) == TRUE

\* q.queue <- req can proceed: the buffered channel is not full
HasRoom(buf) == Len(buf) < QueueCap

\* a worker that executes the action whatever the job's context says
DispatchAlways(ctxDone) == "execute"

\* worker: select { case <-req.ctx.Done(): ...; default: ... }
Dispatch(ctxDone) == IF ctxDone THEN "ctxErr" ELSE "execute"

\* a worker that waits for its ticker after every job, cancelled ones too
AfterJobTick(executed) == "tick"

\* worker: where the loop goes after the result is sent: <-ticker.C stands in
\* the default branch only, the cancelled branch goes back to the outer select
AfterJob(executed) == IF executed THEN "tick" ELSE "select"

\* where a job is, for the history of its cancellation
Phase(e) ==
    IF epc[e] = "idle" THEN "idle"
    ELSE IF epc[e] = "select" THEN (IF HasRoom(qbuf) THEN "select" ELSE "blocked")
    ELSE IF epc[e] = "ret" THEN "returned"
    ELSE IF \E i \in 1..Len(qbuf) : qbuf[i] = e THEN "queued"
    ELSE IF \E w \in Workers : wpc[w] = "got" /\ wjob[w] = e THEN "got"
    ELSE IF \E w \in Workers : wpc[w] = "run" /\ wjob[w] = e THEN "running"
    ELSE "delivered"

\* RequestQueue.Start
Start ==
    /\ ~qpanic
    /\ ~running
    /\ starts < 2
    /\ running' = TRUE
    /\ starts' = starts + 1
    /\ wpc' = [w \in Workers |->
                 IF w \in (IF starts = 0 THEN Workers1 ELSE Workers2) THEN "select" ELSE wpc[w]]
    /\ UNCHANGED <<qbuf, qstop, qpanic, wjob, tickBuf, epc, ectx, eresp, eret, eran, eact, ecancel, wpace, esent>>

\* RequestQueue.Stop: q.running = false; close(q.stop)
Stop ==
    /\ ~qpanic
    /\ running
    /\ running' = FALSE
    /\ qstop' = TRUE
    /\ qpanic' = qstop
    /\ UNCHANGED <<qbuf, starts, wpc, wjob, tickBuf, epc, ectx, eresp, eret, eran, eact, ecancel, wpace, esent>>

\* worker: case <-q.stop: return (defer ticker.Stop())
WorkerStop(w) ==
    /\ ~qpanic
    /\ wpc[w] = "select"
    /\ qstop
    /\ wpc' = [wpc EXCEPT ![w] = "exited"]
    /\ tickBuf' = [tickBuf EXCEPT ![w] = FALSE]
    /\ UNCHANGED <<qbuf, running, qstop, qpanic, starts, wjob, epc, ectx, eresp, eret, eran, eact, ecancel, wpace, esent>>

\* a receive that leaves the job in the channel for the next receiver
ReceiveCopy(buf) == buf

\* what a receive leaves in the channel q.queue: the job received is taken out
Receive(buf) == Tail(buf)

\* worker: case req := <-q.queue
WorkerDequeue(w) ==
    /\ ~qpanic
    /\ wpc[w] = "select"
    /\ qbuf # <<>>
    /\ wjob' = [wjob EXCEPT ![w] = Head(qbuf)]
    /\ qbuf' = Receive(qbuf)
    /\ wpc' = [wpc EXCEPT ![w] = "got"]
    /\ UNCHANGED <<running, qstop, qpanic, starts, tickBuf, epc, ectx, eresp, eret, eran, eact, ecancel, wpace, esent>>

\* worker: the inner select: req.response <- req.ctx.Err() when the job's context
\* is done, otherwise req.execute() starts
WorkerDispatch(w) ==
    /\ ~qpanic
    /\ wpc[w] = "got"
    /\ IF Dispatch(ectx[wjob[w]]) = "ctxErr"
       THEN /\ eresp' = [eresp EXCEPT ![wjob[w]] = Append(@, CtxErr)]
            /\ esent' = [esent EXCEPT ![wjob[w]] = @ + 1]
            /\ wpc' = [wpc EXCEPT ![w] = AfterJob(FALSE)]
            /\ eran' = eran
            /\ wpace' = wpace
       ELSE /\ eran' = [eran EXCEPT ![wjob[w]] = @ + 1]
            /\ wpc' = [wpc EXCEPT ![w] = "run"]
            /\ eresp' = eresp
            /\ wpace' = [wpace EXCEPT ![w] = "nofire"]
            /\ esent' = esent
    /\ UNCHANGED <<qbuf, running, qstop, qpanic, starts, wjob, tickBuf, epc, ectx, eret, eact, ecancel>>

\* worker: req.execute() returns r; req.response <- r
WorkerDeliver(w, r) ==
    /\ ~qpanic
    /\ wpc[w] = "run"
    /\ eact' = [eact EXCEPT ![wjob[w]] = r]
    /\ eresp' = [eresp EXCEPT ![wjob[w]] = Append(@, r)]
    /\ esent' = [esent EXCEPT ![wjob[w]] = @ + 1]
    /\ wpc' = [wpc EXCEPT ![w] = AfterJob(TRUE)]
    /\ UNCHANGED <<qbuf, running, qstop, qpanic, starts, wjob, tickBuf, epc, ectx, eret, eran, ecancel, wpace>>

\* worker: <-ticker.C
WorkerTick(w) ==
    /\ ~qpanic
    /\ wpc[w] = "tick"
    /\ tickBuf[w]
    /\ tickBuf' = [tickBuf EXCEPT ![w] = FALSE]
    /\ wpc' = [wpc EXCEPT ![w] = "select"]
    /\ UNCHANGED <<qbuf, running, qstop, qpanic, starts, wjob, epc, ectx, eresp, eret, eran, eact, ecancel, wpace, esent>>

\* the worker's ticker fires, one interval after it last fired: ticker.C
\* (capacity 1) holds a tick; a tick that finds one in the channel is dropped
TickerFire(w) ==
    /\ ~qpanic
    /\ wpc[w] \notin {"off", "exited"}
    /\ ~tickBuf[w] \/ wpace[w] = "nofire"
    /\ tickBuf' = [tickBuf EXCEPT ![w] = TRUE]
    /\ wpace' = [wpace EXCEPT ![w] = IF @ = "nofire" THEN "fired" ELSE @]
    /\ UNCHANGED <<qbuf, running, qstop, qpanic, starts, wpc, wjob, epc, ectx, eresp, eret, eran, eact, ecancel, esent>>

\* Enqueue: req := &queuedRequest{...}; the caller reaches the select
EnqueueBegin(e) ==
    /\ ~qpanic
    /\ epc[e] = "idle"
    /\ epc' = [epc EXCEPT ![e] = "select"]
    /\ UNCHANGED <<qbuf, running, qstop, qpanic, starts, wpc, wjob, tickBuf, ectx, eresp, eret, eran, eact, ecancel, wpace, esent>>

\* Enqueue: case <-ctx.Done(): return ctx.Err()
EnqueueCtxDone(e) ==
    /\ ~qpanic
    /\ epc[e] = "select"
    /\ ectx[e]
    /\ eret' = [eret EXCEPT ![e] = CtxErr]
    /\ epc' = [epc EXCEPT ![e] = "ret"]
    /\ UNCHANGED <<qbuf, running, qstop, qpanic, starts, wpc, wjob, tickBuf, ectx, eresp, eran, eact, ecancel, wpace, esent>>

\* Enqueue: case q.queue <- req
EnqueueSend(e) ==
    /\ ~qpanic
    /\ epc[e] = "select"
    /\ HasRoom(qbuf)
    /\ qbuf' = Append(qbuf, e)
    /\ epc' = [epc EXCEPT ![e] = "await"]
    /\ UNCHANGED <<running, qstop, qpanic, starts, wpc, wjob, tickBuf, ectx, eresp, eret, eran, eact, ecancel, wpace, esent>>

\* Enqueue: return <-req.response
EnqueueRecv(e) ==
    /\ ~qpanic
    /\ epc[e] = "await"
    /\ eresp[e] # <<>>
    /\ eret' = [eret EXCEPT ![e] = Head(eresp[e])]
    /\ eresp' = [eresp EXCEPT ![e] = Tail(@)]
    /\ epc' = [epc EXCEPT ![e] = "ret"]
    /\ UNCHANGED <<qbuf, running, qstop, qpanic, starts, wpc, wjob, tickBuf, ectx, eran, eact, ecancel, wpace, esent>>

\* the caller's context is cancelled
Cancel(e) ==
    /\ ~qpanic
    /\ ~ectx[e]
    /\ epc[e] # "ret"
    /\ ectx' = [ectx EXCEPT ![e] = TRUE]
    /\ ecancel' = [ecancel EXCEPT ![e] = Phase(e)]
    /\ UNCHANGED <<qbuf, running, qstop, qpanic, starts, wpc, wjob, tickBuf, epc, eresp, eret, eran, eact, wpace, esent>>

(***************************************************************************)
(* Client.doRequest  (src/unnamed/part_000:107-343)                        *)
(* The goroutines of the pipeline are callers of group.Do: the coalescing  *)
(* steps of doRequest are the steps of Do.  The cache and the rate limiter *)
(* are the tables items and limits, read and written with the operators of *)
(* MemoryCache and RateLimiter.  The client is built by NewClient with     *)
(* WithCache, so c.cache.Cache is a MemoryCache exactly when caching is    *)
(* enabled.  NewClient builds a client without a queue (runWithQueue calls *)
(* execute), NewClientQueued one with WithRequestQueue and no cache: its   *)
(* runWithQueue hands execute to the queue as a job, and the job's steps   *)
(* are the steps of execute, taken by a worker for the enqueuing caller    *)
(* (live request context, a free backlog slot and a free worker; the queue *)
(* itself is the RequestQueue component).                                  *)
(***************************************************************************)
\* goroutines calling doRequest
Goroutines == {"a", "b"}
\* the one URL the requests are for: the coalescing key and, with an empty
\* Prefix, the cache key
URL == "k1"
\* req.Method
Methods == {"GET", "POST"}
\* number of doRequest calls in a behaviour
MaxRequests == 2
\* c.cache.TTL, in clock units
CacheTTL == 1
\* a response body that decodes as JSON to value v
JsonBody(v) == [kind |-> "json", retry_after |-> 0, bucket |-> "", value |-> v]
\* a response body that does not decode
BadBody == [kind |-> "empty", retry_after |-> 0, bucket |-> "", value |-> Nil]
\* a response without X-RateLimit-* headers
Plain(st, ra, b) ==
    [status |-> st, bucket |-> "", limit |-> HAbsent, remaining |-> HAbsent, reset |-> HAbsent,
     retryAfter |-> ra, body |-> b]
\* what the upstream service answers: 200 with a JSON value, 200 with a body
\* that does not decode, 500, 429 with Retry-After: 1, or no response at all
\* (status 0: httpClient.Do returned an error)
Upstream ==
    {Plain(StatusOK, HAbsent, JsonBody(v)) : v \in CacheValues}
    \cup {Plain(StatusOK, HAbsent, BadBody),
          Plain(500, HAbsent, BadBody),
          Plain(StatusTooManyRequests, HNum(1), BadBody),
          Plain(0, HAbsent, BadBody)}
\* (body, err) of execute
ExecuteResult(resp) ==
    IF resp.status = 0 THEN <<Nil, "requestFailed">>
    ELSE IF resp.status < 200 \/ resp.status >= 300 THEN <<Nil, "apiErr">>
    ELSE IF resp.body.kind = "json" THEN <<resp.body.value, Nil>>
    ELSE <<"undecodable", Nil>>
\* execute populates the cache: status 200, the body decodes, caching enabled
\* (so there is a cache), method GET
Populates(resp, enabled, method) ==
    /\ resp.status = StatusOK
    /\ resp.body.kind = "json"
    /\ enabled
    /\ method = "GET"
\* a doRequest that has not returned
NoReturn == [val |-> Nil, err |-> Nil, from |-> "none"]

VARIABLES
    configured,    \* NewClient has run
    queueSet,      \* c.queue != nil
    cjobs,         \* history: the jobs admitted to the queue, by the call object of
                   \* group.Do they were enqueued for (0: not through group.Do)
    cacheEnabled,  \* c.cache.Enabled
    staleIfError,  \* c.cache.StaleIfError
    ppc,           \* where each goroutine is inside doRequest
    pmethod,       \* req.Method of its request
    pstore,        \* the decoded value its execute is about to cache (Nil: none)
    pres,          \* (body, err) of its fetch
    pret,          \* what its doRequest returned: value, error, where from
    nreq,          \* number of doRequest calls so far
    stored,        \* history: the values the pipeline has put in the cache
    pcached,       \* history: a value had been cached for URL when the call began
    pctx           \* req.Context() of its request is cancelled

pipeVars == <<configured, queueSet, cjobs, cacheEnabled, staleIfError, ppc, pmethod, pstore, pres,
              pret, nreq, stored, pcached, pctx>>

InitPipe ==
    /\ configured = FALSE
    /\ queueSet = FALSE
    /\ cjobs = [c \in 0..MaxCalls |-> 0]
    /\ cacheEnabled = FALSE
    /\ staleIfError = FALSE
    /\ ppc = [g \in Goroutines |-> "idle"]
    /\ pmethod = [g \in Goroutines |-> "GET"]
    /\ pstore = [g \in Goroutines |-> Nil]
    /\ pres = [g \in Goroutines |-> NoResult]
    /\ pret = [g \in Goroutines |-> NoReturn]
    /\ nreq = 0
    /\ stored = {}
    /\ pcached = [g \in Goroutines |-> FALSE]
    /\ pctx = [g \in Goroutines |-> FALSE]

\* NewClient with WithCache(&CacheConfig{Enabled, StaleIfError, TTL}): an enabled
\* config gets a MemoryCache (client.go:82-85)
NewClient(enabled, stale) ==
    /\ ~configured
    /\ configured' = TRUE
    /\ cacheEnabled' = enabled
    /\ staleIfError' = stale
    /\ UNCHANGED <<queueSet, cjobs, ppc, pmethod, pstore, pres, pret, nreq, stored, pcached, pctx>>

\* NewClient with WithRequestQueue(workers, interval) and no WithCache: c.queue
\* is a started queue, c.cache is nil
NewClientQueued ==
    /\ ~configured
    /\ configured' = TRUE
    /\ queueSet' = TRUE
    /\ UNCHANGED <<cjobs, cacheEnabled, staleIfError, ppc, pmethod, pstore, pres, pret,
                   nreq, stored, pcached, pctx>>

\* a cache lookup that never reports a hit
CacheHitNever(enabled, m, item, now) == FALSE

\* the cache lookup of doRequest reports a hit: caching is enabled, the method
\* is GET, and Get finds the key with an entry that has not expired
CacheHit(enabled, m, item, now) ==
    enabled /\ m = "GET" /\ item.present /\ ~Expired(item, now)

\* doRequest up to the cache lookup: with caching enabled and method GET,
\* c.cache.Cache.Get(cacheKey) under the read lock: absent -> miss; expired ->
\* on to the write lock; otherwise a hit, which returns the cached value
ReqBegin(g, m) ==
    /\ configured
    /\ ppc[g] \in {"idle", "ret"}
    /\ nreq < MaxRequests
    /\ nreq' = nreq + 1
    /\ pmethod' = [pmethod EXCEPT ![g] = m]
    /\ pres' = [pres EXCEPT ![g] = NoResult]
    /\ pcached' = [pcached EXCEPT ![g] = stored # {}]
    /\ pctx' = [pctx EXCEPT ![g] = FALSE]
    /\ IF CacheHit(cacheEnabled, m, items[URL], clock)
       THEN /\ ppc' = [ppc EXCEPT ![g] = "ret"]
            /\ pret' = [pret EXCEPT ![g] =
                          [val |-> items[URL].value, err |-> Nil, from |-> "cache"]]
       ELSE IF cacheEnabled /\ m = "GET" /\ items[URL].present
       THEN /\ ppc' = [ppc EXCEPT ![g] = "lookup"]
            /\ pret' = [pret EXCEPT ![g] = NoReturn]
       ELSE /\ ppc' = [ppc EXCEPT ![g] = "route"]
            /\ pret' = [pret EXCEPT ![g] = NoReturn]
    /\ UNCHANGED <<configured, queueSet, cjobs, cacheEnabled, staleIfError, pstore, stored>>

\* the cache lookup found an expired entry: Get under the write lock deletes the
\* key if it still maps to an expired entry and reports a miss
ReqLookupMiss(g) ==
    /\ ppc[g] = "lookup"
    /\ items' = IF items[URL].present /\ Expired(items[URL], clock)
                THEN [items EXCEPT ![URL] = NoItem]
                ELSE items
    /\ ppc' = [ppc EXCEPT ![g] = "route"]
    /\ UNCHANGED <<configured, queueSet, cjobs, cacheEnabled, staleIfError, pmethod, pstore, pres,
                   pret, nreq, stored, pcached, pctx>>

\* a Do in which every caller runs fn, those that joined a call in flight too
AfterDoRun(joined) == "run"

\* Do after its lock section: a caller that found a call for the key waits for
\* it, the caller that created the call runs fn, which is runWithQueue
AfterDo(joined) == IF joined THEN "wait" ELSE "run"

\* a GET goes through c.requestGroup.Do(key, ...): the lock section of Do
ReqDo(g) ==
    /\ ppc[g] = "route"
    /\ pmethod[g] = "GET"
    /\ DoLock(g, URL)
    /\ ppc' = [ppc EXCEPT ![g] = AfterDo(Lookup(gm, URL) # 0)]
    /\ UNCHANGED <<configured, queueSet, cjobs, cacheEnabled, staleIfError, pmethod, pstore, pres,
                   pret, nreq, stored, pcached, pctx>>

\* any other method calls runWithQueue directly
ReqDirect(g) ==
    /\ ppc[g] = "route"
    /\ pmethod[g] # "GET"
    /\ ppc' = [ppc EXCEPT ![g] = "run"]
    /\ UNCHANGED <<configured, queueSet, cjobs, cacheEnabled, staleIfError, pmethod, pstore, pres,
                   pret, nreq, stored, pcached, pctx>>

\* runWithQueue with a queue: c.queue.Enqueue(req.Context(), func() error {
\* b, e = execute(); return e }) admits one job
ReqEnqueue(g) ==
    /\ queueSet
    /\ ppc[g] = "run"
    /\ cjobs' = [cjobs EXCEPT ![IF pmethod[g] = "GET" THEN dcall[g] ELSE 0] = @ + 1]
    /\ ppc' = [ppc EXCEPT ![g] = "job"]
    /\ UNCHANGED <<configured, queueSet, cacheEnabled, staleIfError, pmethod, pstore, pres,
                   pret, nreq, stored, pcached, pctx>>

\* the context of the caller's request is cancelled
ReqCancel(g) ==
    /\ ppc[g] \notin {"idle", "ret"}
    /\ ~pctx[g]
    /\ pctx' = [pctx EXCEPT ![g] = TRUE]
    /\ UNCHANGED <<configured, queueSet, cjobs, cacheEnabled, staleIfError, ppc, pmethod, pstore,
                   pres, pret, nreq, stored, pcached>>

\* what runWithQueue returns for a job of a cancelled context: Enqueue returns
\* ctx.Err() of the enqueuing caller's context, from its select or from the
\* worker that dequeued the job, and runWithQueue returns (nil, qErr)
QueueError(err) == <<Nil, err>>

\* runWithQueue with a queue, the request's context cancelled: Enqueue returns
\* ctx.Err() without the action having run (at admission, or from the worker
\* that finds the job's context done)
ReqJobCancelled(g) ==
    /\ queueSet
    /\ ppc[g] \in {"run", "job"}
    /\ pctx[g]
    /\ pres' = [pres EXCEPT ![g] = QueueError(CtxErr)]
    /\ ppc' = [ppc EXCEPT ![g] = IF pmethod[g] = "GET" THEN "fn" ELSE "after"]
    /\ UNCHANGED <<configured, queueSet, cjobs, cacheEnabled, staleIfError, pmethod, pstore,
                   pret, nreq, stored, pcached, pctx>>

\* execute begins, called by runWithQueue or, with a queue, by the worker that
\* took the job and found its context not done: ShouldWait("global") says
\* whether to sleep, and until when
ReqExecute(g) ==
    /\ ppc[g] = (IF queueSet THEN "job" ELSE "run")
    /\ ~(queueSet /\ pctx[g])
    /\ LET w == ShouldWait(limits, "global", clock) IN
       /\ ppc' = [ppc EXCEPT ![g] = IF w.ok THEN "sleep" ELSE "http"]
       /\ xwake' = [xwake EXCEPT ![g] = IF w.ok THEN clock + w.d ELSE 0]
    /\ UNCHANGED <<configured, queueSet, cjobs, cacheEnabled, staleIfError, pmethod, pstore, pres,
                   pret, nreq, stored, pcached, pctx>>

\* execute: time.Sleep(wait) is over
ReqSleep(g) ==
    /\ ppc[g] = "sleep"
    /\ clock >= xwake[g]
    /\ xwake' = [xwake EXCEPT ![g] = 0]
    /\ ppc' = [ppc EXCEPT ![g] = "http"]
    /\ UNCHANGED <<configured, queueSet, cjobs, cacheEnabled, staleIfError, pmethod, pstore, pres,
                   pret, nreq, stored, pcached, pctx>>

\* execute: the HTTP call and the rate-limit feedback; a transport error
\* returns before the feedback
ReqHttp(g, resp) ==
    /\ ppc[g] = "http"
    /\ limits' = IF resp.status = 0 THEN limits ELSE LimitsAfter(limits, resp, clock)
    /\ pres' = [pres EXCEPT ![g] = ExecuteResult(resp)]
    /\ pstore' = [pstore EXCEPT ![g] =
                    IF Populates(resp, cacheEnabled, pmethod[g]) THEN resp.body.value ELSE Nil]
    /\ ppc' = [ppc EXCEPT ![g] = "store"]
    /\ UNCHANGED <<configured, queueSet, cjobs, cacheEnabled, staleIfError, pmethod, pret, nreq, stored, pcached, pctx>>

\* execute: c.cache.Cache.Set(key, rawData, c.cache.TTL) for a decoded 200 of a
\* GET; execute returns
ReqStore(g) ==
    /\ ppc[g] = "store"
    /\ IF pstore[g] # Nil
       THEN /\ items' = [items EXCEPT ![URL] = NewItem(pstore[g], CacheTTL, clock)]
            /\ stored' = stored \cup {pstore[g]}
       ELSE /\ items' = items
            /\ stored' = stored
    /\ pstore' = [pstore EXCEPT ![g] = Nil]
    /\ ppc' = [ppc EXCEPT ![g] = IF pmethod[g] = "GET" THEN "fn" ELSE "after"]
    /\ UNCHANGED <<configured, queueSet, cjobs, cacheEnabled, staleIfError, pmethod, pres, pret, nreq, pcached, pctx>>

\* Do: fn returned; c.val, c.err are set and the waiters released
ReqFnReturn(g) ==
    /\ ppc[g] = "fn"
    /\ DoFn(g, pres[g])
    /\ ppc' = [ppc EXCEPT ![g] = "delete"]
    /\ UNCHANGED <<configured, queueSet, cjobs, cacheEnabled, staleIfError, pmethod, pstore, pres,
                   pret, nreq, stored, pcached, pctx>>

\* Do: the executing caller removes the in-flight entry and returns
ReqDoDelete(g) ==
    /\ ppc[g] = "delete"
    /\ DoDelete(g)
    /\ pres' = [pres EXCEPT ![g] = calls[dcall[g]].res]
    /\ ppc' = [ppc EXCEPT ![g] = "after"]
    /\ UNCHANGED <<configured, queueSet, cjobs, cacheEnabled, staleIfError, pmethod, pstore,
                   pret, nreq, stored, pcached, pctx>>

\* Do: a waiting caller is released and returns the shared result
ReqDoWait(g) ==
    /\ ppc[g] = "wait"
    /\ DoWait(g)
    /\ pres' = [pres EXCEPT ![g] = calls[dcall[g]].res]
    /\ ppc' = [ppc EXCEPT ![g] = "after"]
    /\ UNCHANGED <<configured, queueSet, cjobs, cacheEnabled, staleIfError, pmethod, pstore,
                   pret, nreq, stored, pcached, pctx>>

\* doRequest after the fetch.  On an error, with StaleIfError and a cache, the
\* cache is asked: Get under the read lock returns a stored, unexpired value,
\* which is returned with no error; an expired entry sends Get on to the write
\* lock; an absent one returns the error.  Without an error the decoded body
\* is returned.
ReqAfter(g) ==
    /\ ppc[g] = "after"
    /\ IF pres[g][2] # Nil
       THEN IF staleIfError /\ cacheEnabled
            THEN IF ~items[URL].present
                 THEN /\ pret' = [pret EXCEPT ![g] = [val |-> Nil, err |-> pres[g][2], from |-> "fetch"]]
                      /\ ppc' = [ppc EXCEPT ![g] = "ret"]
                 ELSE IF Expired(items[URL], clock)
                 THEN /\ pret' = pret
                      /\ ppc' = [ppc EXCEPT ![g] = "stale"]
                 ELSE /\ pret' = [pret EXCEPT ![g] =
                                    [val |-> items[URL].value, err |-> Nil, from |-> "stale"]]
                      /\ ppc' = [ppc EXCEPT ![g] = "ret"]
            ELSE /\ pret' = [pret EXCEPT ![g] = [val |-> Nil, err |-> pres[g][2], from |-> "fetch"]]
                 /\ ppc' = [ppc EXCEPT ![g] = "ret"]
       ELSE /\ pret' = [pret EXCEPT ![g] =
                          IF pres[g][1] = "undecodable"
                          THEN [val |-> Nil, err |-> "decodeErr", from |-> "fetch"]
                          ELSE [val |-> pres[g][1], err |-> Nil, from |-> "fetch"]]
            /\ ppc' = [ppc EXCEPT ![g] = "ret"]
    /\ UNCHANGED <<configured, queueSet, cjobs, cacheEnabled, staleIfError, pmethod, pstore, pres,
                   nreq, stored, pcached, pctx>>

\* the stale lookup found an expired entry: Get under the write lock deletes the
\* key if it still maps to an expired entry and reports a miss, so doRequest
\* returns the error
ReqStaleMiss(g) ==
    /\ ppc[g] = "stale"
    /\ items' = IF items[URL].present /\ Expired(items[URL], clock)
                THEN [items EXCEPT ![URL] = NoItem]
                ELSE items
    /\ pret' = [pret EXCEPT ![g] = [val |-> Nil, err |-> pres[g][2], from |-> "fetch"]]
    /\ ppc' = [ppc EXCEPT ![g] = "ret"]
    /\ UNCHANGED <<configured, queueSet, cjobs, cacheEnabled, staleIfError, pmethod, pstore, pres,
                   nreq, stored, pcached, pctx>>

(***************************************************************************)
(* Subscription  (src/subscription.go, src/unnamed/part_004:240-315)       *)
(* The poll goroutine of SubscribeWithConfig, the dispatch goroutine       *)
(* (processEvents) started by Handle, Close and the governing context.     *)
(* A fetch (GetPlayers, GetVehicles, Get...Logs) is an input: the list it  *)
(* returns, or an error.                                                   *)
(***************************************************************************)
\* the event types diffed by timestamp
LogTypes == {"commands", "modcalls", "kills", "joins"}
\* the types arguments of SubscribeWithConfig
TypeLists == {<<"players", "commands">>, <<"vehicles", "kills">>, <<"modcalls", "joins">>}
\* the event types diffed by set membership
EntityTypes == {"players", "vehicles"}
\* no initial snapshot of players or vehicles is waiting for its first poll
NoSnapshot == [ok |-> FALSE, set |-> {}]
\* a fetch that returned an error
FetchErr == [err |-> TRUE, list |-> <<>>]
\* the lists a fetch may return: players by name, vehicles by identity key
\* Owner + ":" + Name, and log entries by their Timestamp (newest first, or not)
PlayerPolls == {<<>>, <<"A">>, <<"B">>, <<"A", "B">>}
VehiclePolls == {<<>>, <<"V1">>, <<"V2">>}
LogPolls == {<<>>, <<1>>, <<2, 1>>, <<1, 2>>}
Polls(type) ==
    IF type = "players" THEN PlayerPolls
    ELSE IF type = "vehicles" THEN VehiclePolls
    ELSE LogPolls
\* what a fetch of a type may return: a list and a nil error, or an error
Fetches(type) == {[err |-> FALSE, list |-> l] : l \in Polls(type)} \cup {FetchErr}
\* capacity of the Events channel (config.BufferSize)
BufferSize == 1
\* number of ticks of the poll ticker in a behaviour
MaxPolls == 1
\* the elements of a list
Range(seq) == {seq[i] : i \in 1..Len(seq)}
\* the field of lastState that holds the timestamp of a log type
TimeField(type) ==
    IF type = "commands" THEN "commandTime"
    ELSE IF type = "modcalls" THEN "modCallTime"
    ELSE IF type = "kills" THEN "killTime"
    ELSE "joinTime"
\* no event
NoEvent == [Type |-> "none", Data |-> <<>>]

VARIABLES
    spc,        \* the subscription: "new", "init" (initial snapshot), then the poll
                \* goroutine: "select", "fetch", "diff", "exited"
    types,      \* the subscribed event types
    sidx,       \* the index in types the snapshot / poll is at
    state,      \* lastState
    sfetched,   \* what the fetch of the poll in progress returned
    Events,     \* the buffered channel sub.Events
    eventsClosed, \* close(sub.Events) has run
    subDone,    \* sub.done is closed
    subPanic,   \* close(s.done) ran on a closed channel: the program panicked
    sctx,       \* the governing context is cancelled
    sticker,    \* ticker.C holds a tick
    npolls,     \* number of ticks so far
    onPanicSet, \* config.OnPanic != nil
    hpc,        \* the dispatch goroutine: "off", "range", "handle", "exited"
    hcur,       \* the event it is handling
    sdropped,   \* history: some event found the channel full and was dropped
    hlast,      \* history: how the last handler call ended, and whether OnPanic got it
    hsnap,      \* history, until the first poll of players or vehicles: whether the
                \* initial snapshot fetched them, and the entities it held
    hfail       \* history, inside one tick: the read of an earlier type failed

subVars == <<spc, types, sidx, state, sfetched, Events, eventsClosed, subDone, subPanic,
             sctx, sticker, npolls, onPanicSet, hpc, hcur, sdropped, hlast, hsnap, hfail>>

InitSub ==
    /\ spc = "new"
    /\ types = <<>>
    /\ sidx = 1
    /\ state = [players |-> {}, vehicleSet |-> {}, commandTime |-> 0, modCallTime |-> 0,
                killTime |-> 0, joinTime |-> 0]
    /\ sfetched = FetchErr
    /\ Events = <<>>
    /\ eventsClosed = FALSE
    /\ subDone = FALSE
    /\ subPanic = FALSE
    /\ sctx = FALSE
    /\ sticker = FALSE
    /\ npolls = 0
    /\ onPanicSet = FALSE
    /\ hpc = "off"
    /\ hcur = NoEvent
    /\ sdropped = FALSE
    /\ hlast = [outcome |-> "none", reported |-> FALSE]
    /\ hsnap = NoSnapshot
    /\ hfail = FALSE

\* an initial snapshot that records nothing
SnapshotNone(st, type, fetched) == st

\* the initial snapshot of one type (subscription.go:104-133)
Snapshot(st, type, fetched) ==
    IF fetched.err THEN st
    ELSE IF type = "players" THEN [st EXCEPT !.players = Range(fetched.list)]
    ELSE IF type = "vehicles" THEN [st EXCEPT !.vehicleSet = @ \cup Range(fetched.list)]
    ELSE IF Len(fetched.list) > 0 THEN [st EXCEPT ![TimeField(type)] = fetched.list[1]]
    ELSE st

\* a players poll that reports the arrivals only
PlayerChangesJoinsOnly(old, list) ==
    [joins |-> SelectSeq(list, LAMBDA q : q \notin old), leaves |-> {}]

\* the changes of a players poll: a "join" entry per polled entry not in the old
\* set, a "leave" entry per member of the old set not polled
PlayerChanges(old, list) ==
    [joins |-> SelectSeq(list, LAMBDA q : q \notin old),
     leaves |-> old \ Range(list)]

\* newVehicles of a vehicles poll: the polled vehicles whose key is not in the old set
NewVehicles(old, list) == SelectSeq(list, LAMBDA v : v \notin old)

\* the timestamp a log poll compares and records: logs[0].Timestamp
Newest(list) == list[1]

\* a poll that takes a failed read for an empty list
FailedNever(fetched) == FALSE

\* if ..., err := c.Get...(ctx); err == nil { ... }: the read failed and the
\* case does nothing
Failed(fetched) == fetched.err

\* one poll of one type (subscription.go:153-289): the new lastState and the
\* event it offers to the channel (NoEvent: none)
Diff(st, type, fetched) ==
    IF Failed(fetched) THEN [state |-> st, event |-> NoEvent]
    ELSE IF type = "players" THEN
        LET changes == PlayerChanges(st.players, fetched.list) IN
        [state |-> [st EXCEPT !.players = Range(fetched.list)],
         event |-> IF Len(changes.joins) + Cardinality(changes.leaves) > 0
                   THEN [Type |-> type, Data |-> changes] ELSE NoEvent]
    ELSE IF type = "vehicles" THEN
        LET newVehicles == NewVehicles(st.vehicleSet, fetched.list) IN
        [state |-> [st EXCEPT !.vehicleSet = Range(fetched.list)],
         event |-> IF Len(newVehicles) > 0
                   THEN [Type |-> type, Data |-> newVehicles] ELSE NoEvent]
    ELSE IF Len(fetched.list) > 0 /\ Newest(fetched.list) > st[TimeField(type)] THEN
        [state |-> [st EXCEPT ![TimeField(type)] = Newest(fetched.list)],
         event |-> [Type |-> type, Data |-> fetched.list]]
    ELSE [state |-> st, event |-> NoEvent]

\* a poll that keeps the old lastState when its batch was dropped
BaselineKeptOnDrop(old, new, dropped) == IF dropped THEN old ELSE new

\* lastState after a poll: the new set or timestamp is assigned under mu before
\* the select that sends, so it is recorded whether or not the batch is dropped
Baseline(old, new, dropped) == new

\* a send that waits for room in the channel
CanSendBlocking(ch) == Len(ch) < BufferSize

\* select { case sub.Events <- ev: default: } always proceeds
CanSend(ch) == TRUE

\* the channel after the non-blocking send of ev
Offer(ch, ev) ==
    IF ev.Type # "none" /\ Len(ch) < BufferSize THEN Append(ch, ev) ELSE ch

\* SubscribeWithConfig: the subscription and its zero lastState are created
Subscribe(ts, onPanic) ==
    /\ spc = "new"
    /\ spc' = "init"
    /\ types' = ts
    /\ onPanicSet' = onPanic
    /\ UNCHANGED <<sidx, state, sfetched, Events, eventsClosed, subDone, subPanic, sctx,
                   sticker, npolls, hpc, hcur, hlast, sdropped, hsnap, hfail>>

\* SubscribeWithConfig: the initial snapshot of the next type; after the last
\* type the poll goroutine is started
InitialFetch(fetched) ==
    /\ spc = "init"
    /\ state' = Snapshot(state, types[sidx], fetched)
    /\ hsnap' = IF types[sidx] \in EntityTypes /\ ~fetched.err
                THEN [ok |-> TRUE, set |-> Range(fetched.list)]
                ELSE hsnap
    /\ IF sidx < Len(types)
       THEN /\ sidx' = sidx + 1
            /\ spc' = spc
       ELSE /\ sidx' = 1
            /\ spc' = "select"
    /\ UNCHANGED <<types, sfetched, Events, eventsClosed, subDone, subPanic, sctx, sticker,
                   npolls, onPanicSet, hpc, hcur, sdropped, hlast, hfail>>

\* the poll ticker fires: ticker.C (capacity 1) holds a tick
PollTickerFire ==
    /\ ~subPanic
    /\ spc \in {"select", "fetch", "diff"}
    /\ ~sticker
    /\ npolls < MaxPolls
    /\ npolls' = npolls + 1
    /\ sticker' = TRUE
    /\ UNCHANGED <<spc, types, sidx, state, sfetched, Events, eventsClosed, subDone, subPanic,
                   sctx, onPanicSet, hpc, hcur, sdropped, hlast, hsnap, hfail>>

\* poll goroutine: case <-ticker.C
PollTick ==
    /\ ~subPanic
    /\ spc = "select"
    /\ sticker
    /\ sticker' = FALSE
    /\ sidx' = 1
    /\ spc' = "fetch"
    /\ UNCHANGED <<types, state, sfetched, Events, eventsClosed, subDone, subPanic, sctx,
                   npolls, onPanicSet, hpc, hcur, sdropped, hlast, hsnap, hfail>>

\* a select that has no case for sub.done
StopReadyCtxOnly(ctxDone, done) == ctxDone

\* the select has a ready case that makes the poll goroutine return
StopReady(ctxDone, done) == ctxDone \/ done

\* a poll goroutine that closes sub.Events when told to stop but goes on with
\* its loop
PollExitNoReturn ==
    /\ ~subPanic
    /\ spc = "select"
    /\ StopReady(sctx, subDone)
    /\ ~eventsClosed
    /\ eventsClosed' = TRUE
    /\ UNCHANGED <<spc, sticker, types, sidx, state, sfetched, Events, subDone, subPanic, sctx,
                   npolls, onPanicSet, hpc, hcur, sdropped, hlast, hsnap, hfail>>

\* poll goroutine: case <-ctx.Done() / case <-sub.done: return, and the deferred
\* close(sub.Events)
PollExit ==
    /\ ~subPanic
    /\ spc = "select"
    /\ StopReady(sctx, subDone)
    /\ spc' = "exited"
    /\ eventsClosed' = TRUE
    /\ sticker' = FALSE
    /\ UNCHANGED <<types, sidx, state, sfetched, Events, subDone, subPanic, sctx, npolls,
                   onPanicSet, hpc, hcur, sdropped, hlast, hsnap, hfail>>

\* poll goroutine: the fetch of the type at sidx returns
PollFetch(fetched) ==
    /\ ~subPanic
    /\ spc = "fetch"
    /\ sfetched' = fetched
    /\ spc' = "diff"
    /\ UNCHANGED <<types, sidx, state, Events, eventsClosed, subDone, subPanic, sctx, sticker,
                   npolls, onPanicSet, hpc, hcur, sdropped, hlast, hsnap, hfail>>

\* poll goroutine: the diff of the fetched list against lastState, the update of
\* lastState and the non-blocking send of the event; then the next type, or
\* back to the select
PollDiff ==
    /\ ~subPanic
    /\ spc = "diff"
    /\ LET d == Diff(state, types[sidx], sfetched) IN
       /\ state' = Baseline(state, d.state, d.event.Type # "none" /\ Len(Events) >= BufferSize)
       /\ CanSend(Events)
       /\ Events' = Offer(Events, d.event)
       /\ sdropped' = (sdropped \/ (d.event.Type # "none" /\ Len(Events) >= BufferSize))
    /\ sfetched' = FetchErr
    /\ hsnap' = IF types[sidx] \in EntityTypes THEN NoSnapshot ELSE hsnap
    /\ IF sidx < Len(types)
       THEN /\ sidx' = sidx + 1
            /\ spc' = "fetch"
            /\ hfail' = (hfail \/ sfetched.err)
       ELSE /\ sidx' = 1
            /\ spc' = "select"
            /\ hfail' = FALSE
    /\ UNCHANGED <<types, eventsClosed, subDone, subPanic, sctx, sticker, npolls,
                   onPanicSet, hpc, hcur, hlast>>

\* Subscription.Close: close(s.done), on the subscription SubscribeWithConfig
\* returned; closing a closed channel panics
SubClose ==
    /\ ~subPanic
    /\ spc \notin {"new", "init"}
    /\ subDone' = TRUE
    /\ subPanic' = subDone
    /\ UNCHANGED <<spc, types, sidx, state, sfetched, Events, eventsClosed, sctx, sticker,
                   npolls, onPanicSet, hpc, hcur, sdropped, hlast, hsnap, hfail>>

\* the governing context is cancelled
SubCancel ==
    /\ ~subPanic
    /\ ~sctx
    /\ sctx' = TRUE
    /\ UNCHANGED <<spc, types, sidx, state, sfetched, Events, eventsClosed, subDone, subPanic,
                   sticker, npolls, onPanicSet, hpc, hcur, sdropped, hlast, hsnap, hfail>>

\* Subscription.Handle: go s.processEvents()
Handle ==
    /\ ~subPanic
    /\ spc \notin {"new", "init"}
    /\ hpc = "off"
    /\ hpc' = "range"
    /\ UNCHANGED <<spc, types, sidx, state, sfetched, Events, eventsClosed, subDone, subPanic,
                   sctx, sticker, npolls, onPanicSet, hcur, hlast, sdropped, hsnap, hfail>>

\* processEvents: for event := range s.Events receives an event
DispatchRecv ==
    /\ ~subPanic
    /\ hpc = "range"
    /\ Events # <<>>
    /\ hcur' = Head(Events)
    /\ Events' = Tail(Events)
    /\ hpc' = "handle"
    /\ UNCHANGED <<spc, types, sidx, state, sfetched, eventsClosed, subDone, subPanic, sctx,
                   sticker, npolls, onPanicSet, hlast, sdropped, hsnap, hfail>>

\* a dispatch goroutine whose handler call is not protected by recover
AfterHandlerUnprotected(outcome) == IF outcome = "panic" THEN "crashed" ELSE "range"

\* processEvents: the handler call sits in a function with a deferred recover, so
\* the loop goes on whether the handler returned or panicked
AfterHandler(outcome) == "range"

\* processEvents: the handler of the event's type returns or panics; a panic is
\* recovered and passed to config.OnPanic when that is set
DispatchHandle(outcome) ==
    /\ ~subPanic
    /\ hpc = "handle"
    /\ hlast' = [outcome |-> outcome, reported |-> outcome = "panic" /\ onPanicSet]
    /\ hcur' = NoEvent
    /\ hpc' = AfterHandler(outcome)
    /\ UNCHANGED <<spc, types, sidx, state, sfetched, Events, eventsClosed, subDone, subPanic,
                   sctx, sticker, npolls, onPanicSet, sdropped, hsnap, hfail>>

\* processEvents: the range loop ends when the channel is closed and drained
DispatchExit ==
    /\ ~subPanic
    /\ hpc = "range"
    /\ Events = <<>>
    /\ eventsClosed
    /\ hpc' = "exited"
    /\ UNCHANGED <<spc, types, sidx, state, sfetched, Events, eventsClosed, subDone, subPanic,
                   sctx, sticker, npolls, onPanicSet, hcur, hlast, sdropped, hsnap, hfail>>

(***************************************************************************)
(* Client.Close  (src/client.go:206-217)                                   *)
(* A client built with or without a MemoryCache and with or without a      *)
(* request queue of its own (WithRequestQueue), and goroutines calling     *)
(* Client.Close; MemoryCache.Close may also be called directly.            *)
(***************************************************************************)
\* goroutines calling Client.Close
Closers == {"a", "b"}
\* number of Client.Close calls in a behaviour
MaxCloses == 3

VARIABLES
    kbuilt,     \* NewClient has returned
    kcache,     \* c.cache.Cache is a *MemoryCache
    kowns,      \* c.queue != nil && c.ownsQueue
    kpc,        \* per closer: "idle", "cache" (before the cache part), "queue"
    kcalls,     \* number of Client.Close calls begun
    kdone       \* number of Client.Close calls that returned

closeVars == <<kbuilt, kcache, kowns, kpc, kcalls, kdone>>

InitClose ==
    /\ kbuilt = FALSE
    /\ kcache = FALSE
    /\ kowns = FALSE
    /\ kpc = [c \in Closers |-> "idle"]
    /\ kcalls = 0
    /\ kdone = 0

\* NewClient with its options: WithCache installs the MemoryCache,
\* WithRequestQueue creates a queue, starts it and marks it as owned
NewClientOwning(withCache, withQueue) ==
    /\ ~kbuilt
    /\ kbuilt' = TRUE
    /\ kcache' = withCache
    /\ kowns' = withQueue
    /\ IF withQueue THEN Start ELSE UNCHANGED queueVars
    /\ UNCHANGED <<kpc, kcalls, kdone>>

\* Client.Close is called
ClientCloseBegin(c) ==
    /\ kbuilt
    /\ kpc[c] = "idle"
    /\ kcalls < MaxCloses
    /\ kcalls' = kcalls + 1
    /\ kpc' = [kpc EXCEPT ![c] = "cache"]
    /\ UNCHANGED <<kbuilt, kcache, kowns, kdone>>

\* Client.Close: if the cache is a *MemoryCache, mc.Close()
ClientCloseCache(c) ==
    /\ kpc[c] = "cache"
    /\ IF kcache THEN Close ELSE UNCHANGED cacheVars
    /\ kpc' = [kpc EXCEPT ![c] = "queue"]
    /\ UNCHANGED <<kbuilt, kcache, kowns, kcalls, kdone>>

\* Client.Close: if the client owns its queue, c.queue.Stop(), which returns at
\* once when the queue is not running; then Close returns
ClientCloseQueue(c) ==
    /\ kpc[c] = "queue"
    /\ IF kowns /\ running THEN Stop ELSE UNCHANGED queueVars
    /\ kpc' = [kpc EXCEPT ![c] = "idle"]
    /\ kdone' = kdone + 1
    /\ UNCHANGED <<kbuilt, kcache, kowns, kcalls>>

(***************************************************************************)
(* Queue ownership  (src/client.go:57-88, 159-189, 206-217)                *)
(* NewClient applies its options in order; WithQueue installs a queue the  *)
(* caller supplies, WithRequestQueue creates and starts one. A queue is    *)
(* seen here through its running flag and the Stop calls the client makes. *)
(***************************************************************************)
\* queues: the first and second queue WithRequestQueue creates, and the one the
\* caller supplies through WithQueue
OwnQueues == {"q1", "q2"}
Queues == OwnQueues \cup {"ext"}
\* number of queue options NewClient is given
MaxOptions == 3

VARIABLES
    obuilt,     \* NewClient has returned
    nopts,      \* number of queue options applied
    oqueue,     \* c.queue: Nil or a queue
    oowns,      \* c.ownsQueue
    ocreated,   \* number of queues WithRequestQueue has created
    orunning,   \* per queue: q.running
    ostops,     \* history: per queue, the Stop calls made by the client
    ocloses     \* number of Client.Close calls

optVars == <<obuilt, nopts, oqueue, oowns, ocreated, orunning, ostops, ocloses>>

\* the caller's queue may or may not have been started by the caller
InitOpt ==
    /\ obuilt = FALSE
    /\ nopts = 0
    /\ oqueue = Nil
    /\ oowns = FALSE
    /\ ocreated = 0
    /\ orunning = [q \in Queues |-> FALSE]
    /\ ostops = [q \in Queues |-> 0]
    /\ ocloses = 0

\* a client that stops whatever queue it holds
OwnedAny(queue, owns) == queue # Nil

\* c.queue != nil && c.ownsQueue
Owned(queue, owns) == queue # Nil /\ owns

\* the running flags after c.queue.Stop(), when the client owns its queue
StopOwned(run, queue, owns) ==
    IF Owned(queue, owns) THEN [run EXCEPT ![queue] = FALSE] ELSE run

\* the client's Stop calls after c.queue.Stop(), when the client owns its queue
StopCalls(stops, queue, owns) ==
    IF Owned(queue, owns) THEN [stops EXCEPT ![queue] = @ + 1] ELSE stops

\* the caller starts the queue it is going to supply, or has supplied
ExtStart ==
    /\ ~orunning["ext"]
    /\ ostops["ext"] = 0
    /\ orunning' = [orunning EXCEPT !["ext"] = TRUE]
    /\ UNCHANGED <<obuilt, nopts, oqueue, oowns, ocreated, ostops, ocloses>>

\* the option WithQueue(q): stop an owned queue, then c.queue = q,
\* c.ownsQueue = false
WithQueue ==
    /\ ~obuilt
    /\ nopts < MaxOptions
    /\ nopts' = nopts + 1
    /\ ostops' = StopCalls(ostops, oqueue, oowns)
    /\ orunning' = StopOwned(orunning, oqueue, oowns)
    /\ oqueue' = "ext"
    /\ oowns' = FALSE
    /\ UNCHANGED <<obuilt, ocreated, ocloses>>

\* the option WithRequestQueue(workers, interval): stop an owned queue, then
\* q := NewRequestQueue(...); q.Start(); c.queue = q; c.ownsQueue = true
WithRequestQueue ==
    /\ ~obuilt
    /\ nopts < MaxOptions
    /\ ocreated < Cardinality(OwnQueues)
    /\ nopts' = nopts + 1
    /\ ocreated' = ocreated + 1
    /\ LET q == IF ocreated = 0 THEN "q1" ELSE "q2" IN
       /\ ostops' = StopCalls(ostops, oqueue, oowns)
       /\ orunning' = [StopOwned(orunning, oqueue, oowns) EXCEPT ![q] = TRUE]
       /\ oqueue' = q
    /\ oowns' = TRUE
    /\ UNCHANGED <<obuilt, ocloses>>

\* NewClient returns
NewClientReturn ==
    /\ ~obuilt
    /\ obuilt' = TRUE
    /\ UNCHANGED <<nopts, oqueue, oowns, ocreated, orunning, ostops, ocloses>>

\* Client.Close, the queue part: if c.queue != nil && c.ownsQueue, c.queue.Stop()
ClientCloseOwned ==
    /\ obuilt
    /\ ocloses < MaxCloses
    /\ ocloses' = ocloses + 1
    /\ ostops' = StopCalls(ostops, oqueue, oowns)
    /\ orunning' = StopOwned(orunning, oqueue, oowns)
    /\ UNCHANGED <<obuilt, nopts, oqueue, oowns, ocreated>>

(***************************************************************************)
(* ClientMetrics  (src/unnamed/part_000:132-150, 165-177, 240-245)         *)
(***************************************************************************)
\* number of requests a behaviour may begin while the counters are observed
MaxMetricReqs == 3
\* what c.httpClient.Do and the response amount to: a transport error, a 2xx
\* status, 429, another status
HttpOutcomes == {"transport", "ok", "limited", "failed"}
\* the counters of ClientMetrics
ZeroMetrics ==
    [TotalRequests |-> 0, TotalErrors |-> 0, TotalRateLimits |-> 0,
     CacheHits |-> 0, CacheMisses |-> 0]

VARIABLES
    metrics,    \* c.metrics
    metricsMu,  \* c.metricsMu: the goroutine that holds it, or "none"
    mpc,        \* where each request is: "idle", "lookup", "exec", or at / inside
                \* the locked section "hit", "miss", "req", "err"
    mtmp,       \* the counters as the request read them inside its section
    mmethod,    \* req.Method
    mstatus,    \* the outcome of the request's HTTP call
    mreqs,      \* requests begun so far
    hcalls,     \* history: c.httpClient.Do calls made
    hlookups    \* history: requests that ran c.cache.Cache.Get

metricsVars == <<metrics, metricsMu, mpc, mtmp, mmethod, mstatus, mreqs, hcalls, hlookups>>

\* NewClient: metrics: &ClientMetrics{}
InitMetrics ==
    /\ metrics = ZeroMetrics
    /\ metricsMu = "none"
    /\ mpc = [g \in Goroutines |-> "idle"]
    /\ mtmp = [g \in Goroutines |-> ZeroMetrics]
    /\ mmethod = [g \in Goroutines |-> "GET"]
    /\ mstatus = [g \in Goroutines |-> "none"]
    /\ mreqs = 0
    /\ hcalls = 0
    /\ hlookups = 0

\* a mutex that lets every goroutine in
MuFreeAlways(mu) == TRUE

\* c.metricsMu.Lock() can proceed
MuFree(mu) == mu = "none"

\* the increments of one locked section, applied to the values read in it
Increment(m, read, section, status) ==
    IF section = "hit" THEN [m EXCEPT !.CacheHits = read.CacheHits + 1]
    ELSE IF section = "miss" THEN [m EXCEPT !.CacheMisses = read.CacheMisses + 1]
    ELSE IF section = "req" THEN [m EXCEPT !.TotalRequests = read.TotalRequests + 1]
    ELSE [m EXCEPT !.TotalErrors = read.TotalErrors + 1,
                   !.TotalRateLimits = IF status = "limited"
                                       THEN read.TotalRateLimits + 1
                                       ELSE m.TotalRateLimits]

\* where a request goes when it leaves a locked section: a hit returns, a miss
\* goes on to execute, a transport error and a 2xx status return after the
\* request was counted, another status is counted as an error and returns
AfterSection(section, status) ==
    IF section = "miss" THEN "exec"
    ELSE IF section = "req" /\ status \in {"limited", "failed"} THEN "at_err"
    ELSE "idle"

\* doRequest begins: the lookup comes first for a GET of a client whose cache
\* is enabled
MetricsBegin(g, method, cacheOn) ==
    /\ mpc[g] = "idle"
    /\ mreqs < MaxMetricReqs
    /\ mreqs' = mreqs + 1
    /\ mmethod' = [mmethod EXCEPT ![g] = method]
    /\ mpc' = [mpc EXCEPT ![g] = IF cacheOn /\ method = "GET" THEN "lookup" ELSE "exec"]
    /\ mstatus' = [mstatus EXCEPT ![g] = "none"]
    /\ UNCHANGED <<metrics, metricsMu, mtmp, hcalls, hlookups>>

\* cached, ok := c.cache.Cache.Get(cacheKey)
MetricsLookup(g, ok) ==
    /\ mpc[g] = "lookup"
    /\ hlookups' = hlookups + 1
    /\ mpc' = [mpc EXCEPT ![g] = IF ok THEN "at_hit" ELSE "at_miss"]
    /\ UNCHANGED <<metrics, metricsMu, mtmp, mmethod, mstatus, mreqs, hcalls>>

\* a GET that joins the in-flight call of another GET executes nothing
\* (group.Do: c.wg.Wait())
MetricsCoalesced(g) ==
    /\ mpc[g] = "exec"
    /\ mmethod[g] = "GET"
    /\ \E o \in Goroutines :
          /\ o # g
          /\ mmethod[o] = "GET"
          /\ mpc[o] \in {"exec", "at_req", "in_req", "at_err", "in_err"}
    /\ mpc' = [mpc EXCEPT ![g] = "idle"]
    /\ UNCHANGED <<metrics, metricsMu, mtmp, mmethod, mstatus, mreqs, hcalls, hlookups>>

\* resp, err := c.httpClient.Do(req)
MetricsHttp(g, outcome) ==
    /\ mpc[g] = "exec"
    /\ hcalls' = hcalls + 1
    /\ mstatus' = [mstatus EXCEPT ![g] = outcome]
    /\ mpc' = [mpc EXCEPT ![g] = "at_req"]
    /\ UNCHANGED <<metrics, metricsMu, mtmp, mmethod, mreqs, hlookups>>

\* c.metricsMu.Lock(); the increment reads its counters
MetricsLock(g, section) ==
    /\ mpc[g] = "at_" \o section
    /\ MuFree(metricsMu)
    /\ metricsMu' = g
    /\ mtmp' = [mtmp EXCEPT ![g] = metrics]
    /\ mpc' = [mpc EXCEPT ![g] = "in_" \o section]
    /\ UNCHANGED <<mmethod, metrics, mstatus, mreqs, hcalls, hlookups>>

\* the increment writes its counters; c.metricsMu.Unlock()
MetricsUnlock(g, section) ==
    /\ mpc[g] = "in_" \o section
    /\ metrics' = Increment(metrics, mtmp[g], section, mstatus[g])
    /\ metricsMu' = "none"
    /\ mpc' = [mpc EXCEPT ![g] = AfterSection(section, mstatus[g])]
    /\ UNCHANGED <<mtmp, mmethod, mstatus, mreqs, hcalls, hlookups>>

(***************************************************************************)
(* Variables of all components                                             *)
(***************************************************************************)
vars == <<groupVars, cacheVars, rlVars, queueVars, pipeVars, subVars, closeVars, optVars, metricsVars>>

Init == InitGroup /\ InitCache /\ InitRL /\ InitQueue /\ InitPipe /\ InitSub /\ InitClose /\ InitOpt /\ InitMetrics

NextGroup ==
    \/ \E p \in Callers, k \in Keys : DoLock(p, k) /\ UNCHANGED <<cacheVars, rlVars, queueVars, pipeVars>> /\ UNCHANGED <<subVars, closeVars, optVars, metricsVars>>
    \/ \E p \in Callers, r \in FnResults : DoFn(p, r) /\ UNCHANGED <<cacheVars, rlVars, queueVars, pipeVars>> /\ UNCHANGED <<subVars, closeVars, optVars, metricsVars>>
    \/ \E p \in Callers : DoDelete(p) /\ UNCHANGED <<cacheVars, rlVars, queueVars, pipeVars>> /\ UNCHANGED <<subVars, closeVars, optVars, metricsVars>>
    \/ \E p \in Callers : DoWait(p) /\ UNCHANGED <<cacheVars, rlVars, queueVars, pipeVars>> /\ UNCHANGED <<subVars, closeVars, optVars, metricsVars>>

SpecGroup == Init /\ [][NextGroup]_vars

NextCache ==
    \/ Tick /\ UNCHANGED <<groupVars, rlVars, queueVars, pipeVars>> /\ UNCHANGED <<subVars, closeVars, optVars, metricsVars>>
    \/ \E u \in CacheUsers, k \in CacheKeys, v \in CacheValues, ttl \in TTLs :
          Set(u, k, v, ttl) /\ UNCHANGED <<groupVars, rlVars, queueVars, pipeVars>> /\ UNCHANGED <<subVars, closeVars, optVars, metricsVars>>
    \/ \E u \in CacheUsers, k \in CacheKeys : Delete(u, k) /\ UNCHANGED <<groupVars, rlVars, queueVars, pipeVars>> /\ UNCHANGED <<subVars, closeVars, optVars, metricsVars>>
    \/ \E u \in CacheUsers, k \in CacheKeys : GetRLock(u, k) /\ UNCHANGED <<groupVars, rlVars, queueVars, pipeVars>> /\ UNCHANGED <<subVars, closeVars, optVars, metricsVars>>
    \/ \E u \in CacheUsers : GetLock(u) /\ UNCHANGED <<groupVars, rlVars, queueVars, pipeVars>> /\ UNCHANGED <<subVars, closeVars, optVars, metricsVars>>
    \/ cleanupLoop /\ UNCHANGED <<groupVars, rlVars, queueVars, pipeVars>> /\ UNCHANGED <<subVars, closeVars, optVars, metricsVars>>
    \/ cleanupLoopExit /\ UNCHANGED <<groupVars, rlVars, queueVars, pipeVars>> /\ UNCHANGED <<subVars, closeVars, optVars, metricsVars>>
    \/ Close /\ UNCHANGED <<groupVars, rlVars, queueVars, pipeVars>> /\ UNCHANGED <<subVars, closeVars, optVars, metricsVars>>

SpecCache == Init /\ [][NextCache]_vars

\* the clock advances
TickOnly == Tick

\* the RateLimiter used through its exported methods
NextLimiter ==
    \/ TickOnly /\ UNCHANGED <<groupVars, rlVars, queueVars, pipeVars>> /\ UNCHANGED <<subVars, closeVars, optVars, metricsVars>>
    \/ \E b \in Buckets, rem \in {-1, 0, 3}, reset \in {ZeroTime, 1, 2} :
          UpdateCall(b, 10, rem, reset) /\ UNCHANGED <<groupVars, cacheVars, queueVars, pipeVars>> /\ UNCHANGED <<subVars, closeVars, optVars, metricsVars>>
    \/ \E b \in Buckets : ShouldWaitCall(b) /\ UNCHANGED <<groupVars, cacheVars, queueVars, pipeVars>> /\ UNCHANGED <<subVars, closeVars, optVars, metricsVars>>

SpecLimiter == Init /\ [][NextLimiter]_vars

NextRL ==
    \/ TickOnly /\ UNCHANGED <<groupVars, rlVars, queueVars, pipeVars>> /\ UNCHANGED <<subVars, closeVars, optVars, metricsVars>>
    \/ \E r \in Requests : ExecBegin(r) /\ UNCHANGED <<groupVars, cacheVars, queueVars, pipeVars>> /\ UNCHANGED <<subVars, closeVars, optVars, metricsVars>>
    \/ \E r \in Requests : ExecSleep(r) /\ UNCHANGED <<groupVars, cacheVars, queueVars, pipeVars>> /\ UNCHANGED <<subVars, closeVars, optVars, metricsVars>>
    \/ \E r \in Requests, resp \in Responses : ExecHttp(r, resp) /\ UNCHANGED <<groupVars, cacheVars, queueVars, pipeVars>> /\ UNCHANGED <<subVars, closeVars, optVars, metricsVars>>
    \/ \E r \in Requests : ExecReturn(r) /\ UNCHANGED <<groupVars, cacheVars, queueVars, pipeVars>> /\ UNCHANGED <<subVars, closeVars, optVars, metricsVars>>

SpecRL == Init /\ [][NextRL]_vars

NextQueue ==
    \/ Start /\ UNCHANGED <<groupVars, cacheVars, rlVars, pipeVars>> /\ UNCHANGED <<subVars, closeVars, optVars, metricsVars>>
    \/ Stop /\ UNCHANGED <<groupVars, cacheVars, rlVars, pipeVars>> /\ UNCHANGED <<subVars, closeVars, optVars, metricsVars>>
    \/ \E w \in Workers : WorkerStop(w) /\ UNCHANGED <<groupVars, cacheVars, rlVars, pipeVars>> /\ UNCHANGED <<subVars, closeVars, optVars, metricsVars>>
    \/ \E w \in Workers : WorkerDequeue(w) /\ UNCHANGED <<groupVars, cacheVars, rlVars, pipeVars>> /\ UNCHANGED <<subVars, closeVars, optVars, metricsVars>>
    \/ \E w \in Workers : WorkerDispatch(w) /\ UNCHANGED <<groupVars, cacheVars, rlVars, pipeVars>> /\ UNCHANGED <<subVars, closeVars, optVars, metricsVars>>
    \/ \E w \in Workers, r \in ActionResults : WorkerDeliver(w, r) /\ UNCHANGED <<groupVars, cacheVars, rlVars, pipeVars>> /\ UNCHANGED <<subVars, closeVars, optVars, metricsVars>>
    \/ \E w \in Workers : WorkerTick(w) /\ UNCHANGED <<groupVars, cacheVars, rlVars, pipeVars>> /\ UNCHANGED <<subVars, closeVars, optVars, metricsVars>>
    \/ \E w \in Workers : TickerFire(w) /\ UNCHANGED <<groupVars, cacheVars, rlVars, pipeVars>> /\ UNCHANGED <<subVars, closeVars, optVars, metricsVars>>
    \/ \E e \in Enqueuers : EnqueueBegin(e) /\ UNCHANGED <<groupVars, cacheVars, rlVars, pipeVars>> /\ UNCHANGED <<subVars, closeVars, optVars, metricsVars>>
    \/ \E e \in Enqueuers : EnqueueCtxDone(e) /\ UNCHANGED <<groupVars, cacheVars, rlVars, pipeVars>> /\ UNCHANGED <<subVars, closeVars, optVars, metricsVars>>
    \/ \E e \in Enqueuers : EnqueueSend(e) /\ UNCHANGED <<groupVars, cacheVars, rlVars, pipeVars>> /\ UNCHANGED <<subVars, closeVars, optVars, metricsVars>>
    \/ \E e \in Enqueuers : EnqueueRecv(e) /\ UNCHANGED <<groupVars, cacheVars, rlVars, pipeVars>> /\ UNCHANGED <<subVars, closeVars, optVars, metricsVars>>
    \/ \E e \in Enqueuers : Cancel(e) /\ UNCHANGED <<groupVars, cacheVars, rlVars, pipeVars>> /\ UNCHANGED <<subVars, closeVars, optVars, metricsVars>>

SpecQueue == Init /\ [][NextQueue]_vars

\* SpecQueue with the scheduling the goroutines get: a goroutine that can take a
\* step takes it (an Enqueue call goes on, a worker goes on, a ticker fires);
\* Start, Stop and the cancellation of a context are the caller's to make or not
SpecQueueLive ==
    /\ SpecQueue
    /\ \A e \in Enqueuers :
          /\ WF_vars(EnqueueCtxDone(e) /\ UNCHANGED <<groupVars, cacheVars, rlVars, pipeVars, subVars, closeVars, optVars, metricsVars>>)
          /\ WF_vars(EnqueueRecv(e) /\ UNCHANGED <<groupVars, cacheVars, rlVars, pipeVars, subVars, closeVars, optVars, metricsVars>>)
    /\ \A w \in Workers :
          /\ WF_vars((WorkerStop(w) \/ WorkerDequeue(w) \/ WorkerDispatch(w) \/ WorkerTick(w)
                      \/ TickerFire(w) \/ \E r \in ActionResults : WorkerDeliver(w, r)) /\ UNCHANGED <<groupVars, cacheVars, rlVars, pipeVars, subVars, closeVars, optVars, metricsVars>>)

NextPipe ==
    \/ \E e, st \in BOOLEAN : NewClient(e, st) /\ UNCHANGED <<groupVars, cacheVars, rlVars, queueVars>> /\ UNCHANGED <<subVars, closeVars, optVars, metricsVars>>
    \/ Tick /\ UNCHANGED <<groupVars, rlVars, queueVars, pipeVars>> /\ UNCHANGED <<subVars, closeVars, optVars, metricsVars>>
    \/ cleanupLoop /\ UNCHANGED <<groupVars, rlVars, queueVars, pipeVars>> /\ UNCHANGED <<subVars, closeVars, optVars, metricsVars>>
    \/ \E g \in Goroutines, m \in Methods : ReqBegin(g, m) /\ UNCHANGED <<groupVars, cacheVars, rlVars, queueVars>> /\ UNCHANGED <<subVars, closeVars, optVars, metricsVars>>
    \/ \E g \in Goroutines : ReqLookupMiss(g) /\ UNCHANGED <<groupVars, clock, stopClosed, stopCloses, loopPc, cpc, ckey, cres, cnow, cvalid, cclosed, lastSet, evicts, ckept, rlVars, queueVars>> /\ UNCHANGED <<subVars, closeVars, optVars, metricsVars>>
    \/ \E g \in Goroutines : ReqDo(g) /\ UNCHANGED <<cacheVars, rlVars, queueVars>> /\ UNCHANGED <<subVars, closeVars, optVars, metricsVars>>
    \/ \E g \in Goroutines : ReqDirect(g) /\ UNCHANGED <<groupVars, cacheVars, rlVars, queueVars>> /\ UNCHANGED <<subVars, closeVars, optVars, metricsVars>>
    \/ \E g \in Goroutines : ReqExecute(g) /\ UNCHANGED <<groupVars, cacheVars, limits, xpc, xslept, sw, lastResp, lastRespAt, queueVars>> /\ UNCHANGED <<subVars, closeVars, optVars, metricsVars>>
    \/ \E g \in Goroutines : ReqSleep(g) /\ UNCHANGED <<groupVars, cacheVars, limits, xpc, xslept, sw, lastResp, lastRespAt, queueVars>> /\ UNCHANGED <<subVars, closeVars, optVars, metricsVars>>
    \/ \E g \in Goroutines, resp \in Upstream : ReqHttp(g, resp) /\ UNCHANGED <<groupVars, cacheVars, xpc, xwake, xslept, sw, lastResp, lastRespAt, queueVars>> /\ UNCHANGED <<subVars, closeVars, optVars, metricsVars>>
    \/ \E g \in Goroutines : ReqStore(g) /\ UNCHANGED <<groupVars, clock, stopClosed, stopCloses, loopPc, cpc, ckey, cres, cnow, cvalid, cclosed, lastSet, evicts, ckept, rlVars, queueVars>> /\ UNCHANGED <<subVars, closeVars, optVars, metricsVars>>
    \/ \E g \in Goroutines : ReqFnReturn(g) /\ UNCHANGED <<cacheVars, rlVars, queueVars>> /\ UNCHANGED <<subVars, closeVars, optVars, metricsVars>>
    \/ \E g \in Goroutines : ReqDoDelete(g) /\ UNCHANGED <<cacheVars, rlVars, queueVars>> /\ UNCHANGED <<subVars, closeVars, optVars, metricsVars>>
    \/ \E g \in Goroutines : ReqDoWait(g) /\ UNCHANGED <<cacheVars, rlVars, queueVars>> /\ UNCHANGED <<subVars, closeVars, optVars, metricsVars>>
    \/ \E g \in Goroutines : ReqAfter(g) /\ UNCHANGED <<groupVars, cacheVars, rlVars, queueVars>> /\ UNCHANGED <<subVars, closeVars, optVars, metricsVars>>
    \/ \E g \in Goroutines : ReqStaleMiss(g) /\ UNCHANGED <<groupVars, clock, stopClosed, stopCloses, loopPc, cpc, ckey, cres, cnow, cvalid, cclosed, lastSet, evicts, ckept, rlVars, queueVars>> /\ UNCHANGED <<subVars, closeVars, optVars, metricsVars>>

SpecPipe == Init /\ [][NextPipe]_vars

\* the pipeline of a client with a queue and no cache
NextCoal ==
    \/ NewClientQueued /\ UNCHANGED <<groupVars, cacheVars, rlVars, queueVars>> /\ UNCHANGED <<subVars, closeVars, optVars, metricsVars>>
    \/ Tick /\ UNCHANGED <<groupVars, rlVars, queueVars, pipeVars>> /\ UNCHANGED <<subVars, closeVars, optVars, metricsVars>>
    \/ \E g \in Goroutines, m \in Methods : ReqBegin(g, m) /\ UNCHANGED <<groupVars, cacheVars, rlVars, queueVars>> /\ UNCHANGED <<subVars, closeVars, optVars, metricsVars>>
    \/ \E g \in Goroutines : ReqDo(g) /\ UNCHANGED <<cacheVars, rlVars, queueVars>> /\ UNCHANGED <<subVars, closeVars, optVars, metricsVars>>
    \/ \E g \in Goroutines : ReqDirect(g) /\ UNCHANGED <<groupVars, cacheVars, rlVars, queueVars>> /\ UNCHANGED <<subVars, closeVars, optVars, metricsVars>>
    \/ \E g \in Goroutines : ReqEnqueue(g) /\ UNCHANGED <<groupVars, cacheVars, rlVars, queueVars>> /\ UNCHANGED <<subVars, closeVars, optVars, metricsVars>>
    \/ \E g \in Goroutines : ReqExecute(g) /\ UNCHANGED <<groupVars, cacheVars, limits, xpc, xslept, sw, lastResp, lastRespAt, queueVars>> /\ UNCHANGED <<subVars, closeVars, optVars, metricsVars>>
    \/ \E g \in Goroutines : ReqSleep(g) /\ UNCHANGED <<groupVars, cacheVars, limits, xpc, xslept, sw, lastResp, lastRespAt, queueVars>> /\ UNCHANGED <<subVars, closeVars, optVars, metricsVars>>
    \/ \E g \in Goroutines, resp \in Upstream : ReqHttp(g, resp) /\ UNCHANGED <<groupVars, cacheVars, xpc, xwake, xslept, sw, lastResp, lastRespAt, queueVars>> /\ UNCHANGED <<subVars, closeVars, optVars, metricsVars>>
    \/ \E g \in Goroutines : ReqStore(g) /\ UNCHANGED <<groupVars, clock, stopClosed, stopCloses, loopPc, cpc, ckey, cres, cnow, cvalid, cclosed, lastSet, evicts, ckept, rlVars, queueVars>> /\ UNCHANGED <<subVars, closeVars, optVars, metricsVars>>
    \/ \E g \in Goroutines : ReqFnReturn(g) /\ UNCHANGED <<cacheVars, rlVars, queueVars>> /\ UNCHANGED <<subVars, closeVars, optVars, metricsVars>>
    \/ \E g \in Goroutines : ReqDoDelete(g) /\ UNCHANGED <<cacheVars, rlVars, queueVars>> /\ UNCHANGED <<subVars, closeVars, optVars, metricsVars>>
    \/ \E g \in Goroutines : ReqDoWait(g) /\ UNCHANGED <<cacheVars, rlVars, queueVars>> /\ UNCHANGED <<subVars, closeVars, optVars, metricsVars>>
    \/ \E g \in Goroutines : ReqAfter(g) /\ UNCHANGED <<groupVars, cacheVars, rlVars, queueVars>> /\ UNCHANGED <<subVars, closeVars, optVars, metricsVars>>

SpecCoal == Init /\ [][NextCoal]_vars

NextCancel ==
    \/ NewClientQueued /\ UNCHANGED <<groupVars, cacheVars, rlVars, queueVars>> /\ UNCHANGED <<subVars, closeVars, optVars, metricsVars>>
    \/ Tick /\ UNCHANGED <<groupVars, rlVars, queueVars, pipeVars>> /\ UNCHANGED <<subVars, closeVars, optVars, metricsVars>>
    \/ \E g \in Goroutines, m \in Methods : ReqBegin(g, m) /\ UNCHANGED <<groupVars, cacheVars, rlVars, queueVars>> /\ UNCHANGED <<subVars, closeVars, optVars, metricsVars>>
    \/ \E g \in Goroutines : ReqDo(g) /\ UNCHANGED <<cacheVars, rlVars, queueVars>> /\ UNCHANGED <<subVars, closeVars, optVars, metricsVars>>
    \/ \E g \in Goroutines : ReqDirect(g) /\ UNCHANGED <<groupVars, cacheVars, rlVars, queueVars>> /\ UNCHANGED <<subVars, closeVars, optVars, metricsVars>>
    \/ \E g \in Goroutines : ReqEnqueue(g) /\ UNCHANGED <<groupVars, cacheVars, rlVars, queueVars>> /\ UNCHANGED <<subVars, closeVars, optVars, metricsVars>>
    \/ \E g \in Goroutines : ReqExecute(g) /\ UNCHANGED <<groupVars, cacheVars, limits, xpc, xslept, sw, lastResp, lastRespAt, queueVars>> /\ UNCHANGED <<subVars, closeVars, optVars, metricsVars>>
    \/ \E g \in Goroutines : ReqSleep(g) /\ UNCHANGED <<groupVars, cacheVars, limits, xpc, xslept, sw, lastResp, lastRespAt, queueVars>> /\ UNCHANGED <<subVars, closeVars, optVars, metricsVars>>
    \/ \E g \in Goroutines, resp \in Upstream : ReqHttp(g, resp) /\ UNCHANGED <<groupVars, cacheVars, xpc, xwake, xslept, sw, lastResp, lastRespAt, queueVars>> /\ UNCHANGED <<subVars, closeVars, optVars, metricsVars>>
    \/ \E g \in Goroutines : ReqStore(g) /\ UNCHANGED <<groupVars, clock, stopClosed, stopCloses, loopPc, cpc, ckey, cres, cnow, cvalid, cclosed, lastSet, evicts, ckept, rlVars, queueVars>> /\ UNCHANGED <<subVars, closeVars, optVars, metricsVars>>
    \/ \E g \in Goroutines : ReqFnReturn(g) /\ UNCHANGED <<cacheVars, rlVars, queueVars>> /\ UNCHANGED <<subVars, closeVars, optVars, metricsVars>>
    \/ \E g \in Goroutines : ReqDoDelete(g) /\ UNCHANGED <<cacheVars, rlVars, queueVars>> /\ UNCHANGED <<subVars, closeVars, optVars, metricsVars>>
    \/ \E g \in Goroutines : ReqDoWait(g) /\ UNCHANGED <<cacheVars, rlVars, queueVars>> /\ UNCHANGED <<subVars, closeVars, optVars, metricsVars>>
    \/ \E g \in Goroutines : ReqAfter(g) /\ UNCHANGED <<groupVars, cacheVars, rlVars, queueVars>> /\ UNCHANGED <<subVars, closeVars, optVars, metricsVars>>
    \/ \E g \in Goroutines : ReqCancel(g) /\ UNCHANGED <<groupVars, cacheVars, rlVars, queueVars>> /\ UNCHANGED <<subVars, closeVars, optVars, metricsVars>>
    \/ \E g \in Goroutines : ReqJobCancelled(g) /\ UNCHANGED <<groupVars, cacheVars, rlVars, queueVars>> /\ UNCHANGED <<subVars, closeVars, optVars, metricsVars>>

SpecCancel == Init /\ [][NextCancel]_vars

NextSub ==
    \/ \E ts \in TypeLists, op \in BOOLEAN : Subscribe(ts, op) /\ UNCHANGED <<groupVars, cacheVars, rlVars, queueVars, pipeVars, closeVars, optVars, metricsVars>>
    \/ spc = "init" /\ \E f \in Fetches(types[sidx]) : InitialFetch(f) /\ UNCHANGED <<groupVars, cacheVars, rlVars, queueVars, pipeVars, closeVars, optVars, metricsVars>>
    \/ PollTickerFire /\ UNCHANGED <<groupVars, cacheVars, rlVars, queueVars, pipeVars, closeVars, optVars, metricsVars>>
    \/ PollTick /\ UNCHANGED <<groupVars, cacheVars, rlVars, queueVars, pipeVars, closeVars, optVars, metricsVars>>
    \/ PollExit /\ UNCHANGED <<groupVars, cacheVars, rlVars, queueVars, pipeVars, closeVars, optVars, metricsVars>>
    \/ spc = "fetch" /\ \E f \in Fetches(types[sidx]) : PollFetch(f) /\ UNCHANGED <<groupVars, cacheVars, rlVars, queueVars, pipeVars, closeVars, optVars, metricsVars>>
    \/ PollDiff /\ UNCHANGED <<groupVars, cacheVars, rlVars, queueVars, pipeVars, closeVars, optVars, metricsVars>>
    \/ SubClose /\ UNCHANGED <<groupVars, cacheVars, rlVars, queueVars, pipeVars, closeVars, optVars, metricsVars>>
    \/ SubCancel /\ UNCHANGED <<groupVars, cacheVars, rlVars, queueVars, pipeVars, closeVars, optVars, metricsVars>>
    \/ Handle /\ UNCHANGED <<groupVars, cacheVars, rlVars, queueVars, pipeVars, closeVars, optVars, metricsVars>>
    \/ DispatchRecv /\ UNCHANGED <<groupVars, cacheVars, rlVars, queueVars, pipeVars, closeVars, optVars, metricsVars>>
    \/ \E o \in {"return", "panic"} : DispatchHandle(o) /\ UNCHANGED <<groupVars, cacheVars, rlVars, queueVars, pipeVars, closeVars, optVars, metricsVars>>
    \/ DispatchExit /\ UNCHANGED <<groupVars, cacheVars, rlVars, queueVars, pipeVars, closeVars, optVars, metricsVars>>

SpecSub == Init /\ [][NextSub]_vars

\* SpecSub with the scheduling the goroutines get: a fetch returns and a handler
\* call ends, a goroutine that can take a step takes it, and the poll
\* goroutine's select, which picks among its ready cases at random, does not
\* pass over a ready ctx.Done() / sub.done case for ever
SpecSubLive ==
    /\ SpecSub
    /\ WF_vars(spc = "init" /\ (\E f \in Fetches(types[sidx]) : InitialFetch(f)) /\ UNCHANGED <<groupVars, cacheVars, rlVars, queueVars, pipeVars, closeVars, optVars, metricsVars>>)
    /\ SF_vars(PollExit /\ UNCHANGED <<groupVars, cacheVars, rlVars, queueVars, pipeVars, closeVars, optVars, metricsVars>>)
    /\ WF_vars(spc = "fetch" /\ (\E f \in Fetches(types[sidx]) : PollFetch(f)) /\ UNCHANGED <<groupVars, cacheVars, rlVars, queueVars, pipeVars, closeVars, optVars, metricsVars>>)
    /\ WF_vars(PollDiff /\ UNCHANGED <<groupVars, cacheVars, rlVars, queueVars, pipeVars, closeVars, optVars, metricsVars>>)
    /\ WF_vars(DispatchRecv /\ UNCHANGED <<groupVars, cacheVars, rlVars, queueVars, pipeVars, closeVars, optVars, metricsVars>>)
    /\ WF_vars((\E o \in {"return", "panic"} : DispatchHandle(o)) /\ UNCHANGED <<groupVars, cacheVars, rlVars, queueVars, pipeVars, closeVars, optVars, metricsVars>>)
    /\ WF_vars(DispatchExit /\ UNCHANGED <<groupVars, cacheVars, rlVars, queueVars, pipeVars, closeVars, optVars, metricsVars>>)

NextClose ==
    \/ \E wc, wq \in BOOLEAN : NewClientOwning(wc, wq) /\ UNCHANGED <<groupVars, cacheVars, rlVars, pipeVars, subVars, optVars, metricsVars>>
    \/ \E c \in Closers : ClientCloseBegin(c) /\ UNCHANGED <<groupVars, cacheVars, rlVars, queueVars, pipeVars, subVars, optVars, metricsVars>>
    \/ \E c \in Closers : ClientCloseCache(c) /\ UNCHANGED <<groupVars, rlVars, queueVars, pipeVars, subVars, optVars, metricsVars>>
    \/ \E c \in Closers : ClientCloseQueue(c) /\ UNCHANGED <<groupVars, cacheVars, rlVars, pipeVars, subVars, optVars, metricsVars>>
    \/ Close /\ UNCHANGED <<groupVars, rlVars, queueVars, pipeVars, subVars, closeVars, optVars, metricsVars>>
    \/ cleanupLoopExit /\ UNCHANGED <<groupVars, rlVars, queueVars, pipeVars, subVars, closeVars, optVars, metricsVars>>
    \/ \E w \in Workers : WorkerStop(w) /\ UNCHANGED <<groupVars, cacheVars, rlVars, pipeVars, subVars, closeVars, optVars, metricsVars>>

SpecClose == Init /\ [][NextClose]_vars

NextOpt ==
    \/ ExtStart /\ UNCHANGED <<groupVars, cacheVars, rlVars, queueVars, pipeVars, subVars, closeVars, metricsVars>>
    \/ WithQueue /\ UNCHANGED <<groupVars, cacheVars, rlVars, queueVars, pipeVars, subVars, closeVars, metricsVars>>
    \/ WithRequestQueue /\ UNCHANGED <<groupVars, cacheVars, rlVars, queueVars, pipeVars, subVars, closeVars, metricsVars>>
    \/ NewClientReturn /\ UNCHANGED <<groupVars, cacheVars, rlVars, queueVars, pipeVars, subVars, closeVars, metricsVars>>
    \/ ClientCloseOwned /\ UNCHANGED <<groupVars, cacheVars, rlVars, queueVars, pipeVars, subVars, closeVars, metricsVars>>

SpecOpt == Init /\ [][NextOpt]_vars

NextMetrics ==
    \/ \E g \in Goroutines, m \in Methods, cacheOn \in BOOLEAN : MetricsBegin(g, m, cacheOn) /\ UNCHANGED <<groupVars, cacheVars, rlVars, queueVars, pipeVars, subVars, closeVars, optVars>>
    \/ \E g \in Goroutines, ok \in BOOLEAN : MetricsLookup(g, ok) /\ UNCHANGED <<groupVars, cacheVars, rlVars, queueVars, pipeVars, subVars, closeVars, optVars>>
    \/ \E g \in Goroutines : MetricsCoalesced(g) /\ UNCHANGED <<groupVars, cacheVars, rlVars, queueVars, pipeVars, subVars, closeVars, optVars>>
    \/ \E g \in Goroutines, o \in HttpOutcomes : MetricsHttp(g, o) /\ UNCHANGED <<groupVars, cacheVars, rlVars, queueVars, pipeVars, subVars, closeVars, optVars>>
    \/ \E g \in Goroutines, s \in {"hit", "miss", "req", "err"} : MetricsLock(g, s) /\ UNCHANGED <<groupVars, cacheVars, rlVars, queueVars, pipeVars, subVars, closeVars, optVars>>
    \/ \E g \in Goroutines, s \in {"hit", "miss", "req", "err"} : MetricsUnlock(g, s) /\ UNCHANGED <<groupVars, cacheVars, rlVars, queueVars, pipeVars, subVars, closeVars, optVars>>

SpecMetrics == Init /\ [][NextMetrics]_vars

(***************************************************************************)
(* Claims about group.Do, checked under SpecGroup                          *)
(***************************************************************************)
\* callers that hold call object c (the caller that registered it and its waiters)
Sharing(c) == {p \in Callers : dcall[p] = c /\ dpc[p] # "idle"}

\* C1: for concurrent group.Do calls that share a key, fn runs exactly once and
\* every caller returns the (value, error) pair of that single run: at most one
\* caller per key is running fn; a caller blocked on a call that has not completed
\* holds the same call object as the caller running fn for that key; fn ran exactly
\* once for a completed call object, never more; all callers that returned from
\* one call object returned the pair its single run of fn recorded.
C1_CoalescedOnce ==
    /\ \A k \in Keys : Cardinality({p \in Callers : dpc[p] = "exec" /\ dkey[p] = k}) <= 1
    /\ \A p, q \in Callers :
          (dpc[p] = "exec" /\ dpc[q] = "wait" /\ dkey[p] = dkey[q] /\ ~calls[dcall[q]].done)
              => dcall[q] = dcall[p]
    /\ \A c \in 1..MaxCalls :
          /\ fnRuns[c] <= 1
          /\ calls[c].done => fnRuns[c] = 1
          /\ \A p, q \in Sharing(c) :
                (dpc[p] = "ret" /\ dpc[q] = "ret")
                    => (dret[p] = dret[q] /\ dret[p] = calls[c].res /\ dret[p] \in FnResults)

\* C1 witness: three callers of one key returned from the same call object, whose
\* fn ran once
C1_Witness ==
    \E c \in 1..MaxCalls :
        /\ fnRuns[c] = 1
        /\ \A p \in Callers : dpc[p] = "ret" /\ dcall[p] = c /\ dret[p] = calls[c].res

\* C2 (as claimed): a Do call that starts after fn's completion for its key was
\* signalled runs fn itself and never returns the earlier recorded result, i.e. no
\* caller ever joins a call object whose completion was already signalled.
C2_RestartAfterSignal ==
    \A p \in Callers : dpc[p] \in {"wait", "ret"} => ~dstale[p]

(***************************************************************************)
(* Claims about MemoryCache, checked under SpecCache                       *)
(***************************************************************************)
\* the user's last Get has returned and no Set/Delete of its key came after the
\* Get's expiry check: the Get observed the Set recorded in lastSet
Observed(u) ==
    /\ cpc[u] = "idle"
    /\ cres[u] # NoGet
    /\ cvalid[u]
    /\ lastSet[ckey[u]].set

\* C3: after Set(key, v, t) with t > 0 and no later Set/Delete of the key, a Get
\* whose clock reading is before the expiry instant (time of Set + t) returns
\* (v, true) and a Get whose clock reading is after it returns (nil, false).
C3_TTL ==
    \A u \in CacheUsers :
        (Observed(u) /\ lastSet[ckey[u]].ttl > 0) =>
            LET s == lastSet[ckey[u]]
                expiry == s.at + s.ttl
            IN  /\ cnow[u] < expiry => cres[u] = <<s.val, TRUE>>
                /\ cnow[u] > expiry => cres[u] = <<Nil, FALSE>>

\* C3 witness: of one Set with a positive ttl, one user read the value before the
\* expiry instant and the other got (nil, false) after it
C3_Witness ==
    \E u, w \in CacheUsers :
        /\ Observed(u) /\ Observed(w) /\ ckey[u] = ckey[w]
        /\ lastSet[ckey[u]].ttl > 0
        /\ cnow[u] < lastSet[ckey[u]].at + lastSet[ckey[u]].ttl
        /\ cres[u] = <<lastSet[ckey[u]].val, TRUE>>
        /\ cnow[w] > lastSet[ckey[w]].at + lastSet[ckey[w]].ttl
        /\ cres[w] = <<Nil, FALSE>>

\* C4 (as claimed): an entry stored with ttl <= 0 is cached indefinitely: it stays
\* in the table whatever the clock, the lazy expiry and the sweep do, and every
\* later Get returns (v, true).
C4_Indefinite ==
    /\ \A k \in CacheKeys :
          (lastSet[k].set /\ lastSet[k].ttl <= 0)
              => (items[k].present /\ items[k].value = lastSet[k].val)
    /\ \A u \in CacheUsers :
          (Observed(u) /\ lastSet[ckey[u]].ttl <= 0)
              => cres[u] = <<lastSet[ckey[u]].val, TRUE>>

(***************************************************************************)
(* Claims about RateLimiter, checked under SpecLimiter                     *)
(***************************************************************************)
\* C6: ShouldWait(bucket) returns (d, true) with d > 0 if and only if the bucket
\* has recorded state with Remaining <= 0 and Reset strictly after now, and then
\* d = Reset - now; in every other case (a bucket never updated included) it
\* returns (0, false).
C6_ShouldWait ==
    sw.called =>
        LET mustWait == sw.seen.exists /\ sw.seen.Remaining <= 0 /\ sw.seen.Reset > sw.now
        IN  /\ sw.ok <=> mustWait
            /\ mustWait => (sw.d > 0 /\ sw.d = sw.seen.Reset - sw.now)
            /\ ~mustWait => (sw.d = 0 /\ ~sw.ok)

\* C6 witness: ShouldWait told a caller to wait
C6_Witness ==
    /\ sw.called /\ sw.ok /\ sw.d > 0
    /\ sw.seen.exists /\ sw.seen.Remaining <= 0 /\ sw.seen.Reset = sw.now + sw.d

(***************************************************************************)
(* Claims about execute's rate-limit feedback, checked under SpecRL        *)
(***************************************************************************)
\* C7 (as claimed): every 429 response with neither a Retry-After header nor a body
\* with retry-after information sets the "global" bucket to Remaining = 0 with
\* reset time now + 5 s, whatever other headers it carries.
C7_Fallback ==
    (lastResp.status = StatusTooManyRequests /\ ~lastResp.retryInfo)
        => /\ limits["global"].exists
           /\ limits["global"].Remaining = 0
           /\ limits["global"].Reset = lastRespAt + FallbackDelay

\* C8 (as claimed): after a 429 response that carries retry-after information, the
\* "global" bucket's reset time is set from that value, so that ShouldWait("global")
\* answers "wait" until it has elapsed; also when the body names a bucket or only
\* some rate-limit headers are present.
C8_RetryAfter ==
    (lastResp.status = StatusTooManyRequests /\ lastResp.retryInfo /\ lastResp.ra.some)
        => /\ limits["global"].exists
           /\ limits["global"].Reset = lastRespAt + lastResp.ra.d
           /\ clock < lastRespAt + lastResp.ra.d => ShouldWait(limits, "global", clock).ok

\* C22 (as claimed): a response with a status other than 429 whose rate-limit
\* header data is absent or malformed (no X-RateLimit-* header, non-numeric
\* values, or only some of the four headers) leaves the recorded state of the
\* "global" bucket unchanged.
C22_MalformedKeepsState ==
    [][(/\ \E r \in Requests : xpc[r] = "http" /\ xpc'[r] = "done"
        /\ lastResp'.status = StatusOK
        /\ ~lastResp'.rateLimitComplete)
       => limits'["global"] = limits["global"]]_vars

(***************************************************************************)
(* Claims about RequestQueue, checked under SpecQueue                      *)
(***************************************************************************)
\* the job's context was cancelled before a worker started its action
CancelledEarly(e) == ecancel[e] \in {"idle", "select", "blocked", "queued", "got"}

\* C9: a caller in Enqueue's select leaves it only when the backlog has a free
\* slot or its context is cancelled, so with the backlog at capacity it stays
\* blocked; and a job whose context was cancelled while its caller was blocked
\* on a full backlog never has its action executed and Enqueue, when it
\* returns, returns the cancellation error.
C9_Backpressure ==
    /\ [](\A e \in Enqueuers : ecancel[e] = "blocked" =>
            /\ eran[e] = 0
            /\ epc[e] = "ret" => eret[e] = CtxErr)
    /\ [][\A e \in Enqueuers : (epc[e] = "select" /\ epc'[e] # "select") =>
            \/ Len(qbuf) < QueueCap /\ epc'[e] = "await"
            \/ ectx[e] /\ epc'[e] = "ret" /\ eret'[e] = CtxErr]_vars

\* an Enqueue whose context was cancelled while it was blocked on a full
\* backlog has returned the cancellation error, its action not executed
C9_Witness ==
    \E e \in Enqueuers :
        /\ ecancel[e] = "blocked"
        /\ epc[e] = "ret"
        /\ eret[e] = CtxErr
        /\ eran[e] = 0

\* C10: once Enqueue has returned, if a worker executed the action then it was
\* executed once and Enqueue returned exactly the action's error value; if the
\* context was cancelled before a worker started the action then the action
\* was never executed and Enqueue returned the cancellation error.
C10_EnqueueResult ==
    \A e \in Enqueuers :
        /\ CancelledEarly(e) => eran[e] = 0
        /\ epc[e] = "ret" =>
            /\ eran[e] > 0 => (eran[e] = 1 /\ eact[e] \in ActionResults /\ eret[e] = eact[e])
            /\ eran[e] = 0 => eret[e] = CtxErr
            /\ CancelledEarly(e) => eret[e] = CtxErr

\* one Enqueue returned its action's error, another, cancelled while its job
\* sat in the backlog, returned the cancellation error
C10_Witness ==
    \E e, f \in Enqueuers :
        /\ epc[e] = "ret" /\ eran[e] = 1 /\ eret[e] = "apiErr" /\ eact[e] = "apiErr"
        /\ epc[f] = "ret" /\ ecancel[f] = "queued" /\ eret[f] = CtxErr /\ eran[f] = 0

\* C11 (as claimed): once Stop has run (the queue is not running and q.stop is
\* closed), no worker accepts a further job: no worker goes from its select to
\* holding a dequeued job.
C11_NoJobAfterStop ==
    [][(~running /\ qstop) =>
          \A w \in Workers : ~(wpc[w] = "select" /\ wpc'[w] = "got")]_vars

(***************************************************************************)
(* Claims about Client.doRequest, checked under SpecPipe                   *)
(***************************************************************************)
\* C5: a GET for URL that began after a value had been cached for URL and
\* whose fetch failed has returned, with StaleIfError, a value that was cached
\* and no error and, without StaleIfError, the fetch's error.
C5_StaleIfError ==
    \A g \in Goroutines :
        (ppc[g] = "ret" /\ pmethod[g] = "GET" /\ pcached[g] /\ pres[g][2] # Nil) =>
            IF staleIfError
            THEN pret[g].err = Nil /\ pret[g].val \in stored
            ELSE pret[g].err = pres[g][2]

(***************************************************************************)
(* Claims about a Subscription, checked under SpecSub                      *)
(***************************************************************************)
\* C12: a players poll that succeeded, with Old the previous player set and New
\* the polled one (the server names no player twice), records New and, when
\* Old = New, offers nothing to the channel; otherwise it offers one event of
\* type players whose batch holds exactly one "join" entry per member of
\* New \ Old and exactly one "leave" entry per member of Old \ New (the offer
\* is appended when the channel has room and dropped when it is full)
C12_PlayerDiff ==
    [][(/\ spc = "diff" /\ spc' # "diff"
        /\ types[sidx] = "players"
        /\ ~sfetched.err)
       => LET Old == state.players
              New == Range(sfetched.list)
          IN  /\ state'.players = New
              /\ IF Old = New \/ Len(Events) >= BufferSize
                 THEN Events' = Events
                 ELSE /\ Len(Events') = Len(Events) + 1
                      /\ SubSeq(Events', 1, Len(Events)) = Events
                      /\ LET ev == Events'[Len(Events')] IN
                         /\ ev.Type = "players"
                         /\ Range(ev.Data.joins) = New \ Old
                         /\ Len(ev.Data.joins) = Cardinality(New \ Old)
                         /\ ev.Data.leaves = Old \ New]_vars

\* a players event with a "join" and a "leave" entry is in the channel
C12_Witness ==
    \E i \in 1..Len(Events) :
        /\ Events[i].Type = "players"
        /\ Len(Events[i].Data.joins) = 1
        /\ Cardinality(Events[i].Data.leaves) = 1

C14_VehicleDiff ==
    [][(/\ spc = "diff" /\ spc' # "diff"
        /\ types[sidx] = "vehicles"
        /\ ~sfetched.err)
       => LET Old == state.vehicleSet
              New == Range(sfetched.list)
          IN  /\ state'.vehicleSet = New
              /\ IF Old = New
                 THEN Events' = Events
                 ELSE Len(Events) < BufferSize
                      => /\ Len(Events') = Len(Events) + 1
                         /\ Events'[Len(Events')].Type = "vehicles"
                         /\ Range(Events'[Len(Events')].Data)
                                = (New \ Old) \cup (Old \ New)]_vars

\* C15: emission never blocks the poll loop: a poll goroutine that has a diff to
\* make can always make it, whatever the channel holds and whatever the dispatch
\* goroutine does (started or not); with the channel full the step leaves the
\* channel as it is, so a new batch is dropped, and goes on to the next type or
\* back to the select for the next tick
C15_NeverBlocks ==
    /\ []((spc = "diff" /\ ~subPanic) => ENABLED PollDiff)
    /\ [][(spc = "diff" /\ spc' # "diff" /\ Len(Events) >= BufferSize)
          => /\ Events' = Events
             /\ spc' = IF sidx < Len(types) THEN "fetch" ELSE "select"]_vars

\* a batch was dropped on a full channel while the dispatch goroutine was never
\* started, and the poll loop is back at its select
C15_Witness ==
    /\ sdropped
    /\ hpc = "off"
    /\ Len(Events) = BufferSize
    /\ spc = "select"

\* C16: a panic inside a handler is contained: the handler call, returning or
\* panicking, puts the dispatch goroutine back at its range loop and changes
\* nothing of the poll goroutine, its state or the channel; a panic is passed to
\* OnPanic exactly when OnPanic is configured; the dispatch goroutine never
\* dies of a panic, and back at the range loop it can receive the next event
\* whenever the channel holds one
C16_PanicContained ==
    /\ [](hpc \in {"off", "range", "handle", "exited"})
    /\ []((hpc = "range" /\ Events # <<>> /\ ~subPanic) => ENABLED DispatchRecv)
    /\ [][(hpc = "handle" /\ hpc' # "handle")
          => /\ hpc' = "range"
             /\ hlast'.outcome \in {"return", "panic"}
             /\ hlast'.reported = (hlast'.outcome = "panic" /\ onPanicSet)
             /\ UNCHANGED <<spc, types, sidx, state, sfetched, Events, eventsClosed,
                            subDone, subPanic, sctx, sticker, npolls>>]_vars

\* after a handler panicked and OnPanic was told, the dispatch goroutine is
\* handling a later event while the poll goroutine is still running
C16_Witness ==
    /\ hlast.outcome = "panic"
    /\ hlast.reported
    /\ hpc = "handle"
    /\ spc \in {"select", "fetch", "diff"}

(***************************************************************************)
(* Claims about the end of a Subscription, checked under SpecSubLive       *)
(***************************************************************************)
\* C17: once a subscription was closed or has its context cancelled, eventually
\* the poll goroutine has returned (no further poll is issued), the Events
\* channel is closed, and a dispatch goroutine, if one was started, has received
\* every buffered event and left its range loop. (Close is called once: a
\* second Close panics on the closed channel and ends the program.)
C17_Terminates ==
    (spc # "new" /\ (subDone \/ sctx)) ~>
        \/ subPanic
        \/ /\ spc = "exited"
           /\ eventsClosed
           /\ \/ hpc = "off"
              \/ hpc = "exited" /\ Events = <<>> /\ hcur.Type = "none"

\* the poll goroutine returned after a Close, and the dispatch goroutine, having
\* handled an event, found the channel closed and empty and left its loop
C17_Witness ==
    /\ subDone /\ ~subPanic
    /\ spc = "exited" /\ eventsClosed
    /\ hpc = "exited" /\ Events = <<>>
    /\ hlast.outcome # "none"

(***************************************************************************)
(* Claims about the cache in Client.doRequest, checked under SpecPipe      *)
(***************************************************************************)
\* C18: a cache hit short-circuits the pipeline: when a goroutine begins a GET
\* with caching enabled and the cache holds an unexpired entry for the
\* fingerprint, doRequest returns the cached value in that very step: no
\* in-flight call is registered, no job is enqueued, the rate limiter is neither
\* consulted nor updated, the cache is not written, and no upstream response
\* exists for the request; any other request goes on to the lookup's write lock
\* or to the routing
C18_CacheHit ==
    [][nreq' = nreq + 1 =>
         \E g \in Goroutines :
            /\ \A h \in Goroutines \ {g} :
                  ppc'[h] = ppc[h] /\ pret'[h] = pret[h] /\ pmethod'[h] = pmethod[h]
            /\ IF /\ cacheEnabled /\ pmethod'[g] = "GET"
                  /\ items[URL].present /\ ~Expired(items[URL], clock)
               THEN /\ ppc'[g] = "ret"
                    /\ pret'[g] = [val |-> items[URL].value, err |-> Nil, from |-> "cache"]
                    /\ pres'[g] = NoResult
                    /\ UNCHANGED <<groupVars, cacheVars, rlVars, queueVars, stored>>
               ELSE ppc'[g] \in {"lookup", "route"}]_vars

\* the second request of the run has returned a cached value while no call is
\* in flight
C18_Witness ==
    \E g \in Goroutines :
        /\ ppc[g] = "ret"
        /\ pret[g].from = "cache"
        /\ pret[g].val # Nil
        /\ gm[URL] = 0
        /\ nreq = 2

(***************************************************************************)
(* Claims about Close, checked under SpecClose and SpecCache               *)
(***************************************************************************)
\* C19: Close is idempotent: however many times and however interleaved
\* Client.Close and MemoryCache.Close are called, the cache's stop channel is
\* closed at most once, the client's own queue is stopped by one close of q.stop
\* and no close hits a closed channel (no panic); once a Client.Close call has
\* returned, no step of any Client.Close call changes anything of the cache or
\* the queue
C19_CloseIdempotent ==
    /\ [](stopCloses <= 1 /\ (stopClosed <=> stopCloses = 1))
    /\ [](~qpanic)
    /\ [][(kdone >= 1 /\ kpc' # kpc) => UNCHANGED <<cacheVars, queueVars>>]_vars

\* three Client.Close calls have returned on a client with a MemoryCache and a
\* queue of its own: the stop channel was closed once and the queue is stopped
C19_Witness ==
    /\ kcache /\ kowns
    /\ kdone = 3
    /\ stopCloses = 1
    /\ qstop /\ ~running

C21_Ownership ==
    /\ [](ostops["ext"] = 0)
    /\ [](oowns <=> oqueue \in OwnQueues)
    /\ [](\A q \in OwnQueues :
            ((q = "q1" /\ ocreated >= 1) \/ (q = "q2" /\ ocreated >= 2))
            => IF oqueue = q
               THEN ocloses = 0 => (orunning[q] /\ ostops[q] = 0)
               ELSE ~orunning[q] /\ ostops[q] = 1)
    /\ [][ocloses' = ocloses + 1
          => /\ \A q \in Queues \ {oqueue} : ostops'[q] = ostops[q] /\ orunning'[q] = orunning[q]
             /\ oqueue \in OwnQueues => (~orunning'[oqueue] /\ ostops'[oqueue] = ostops[oqueue] + 1)
             /\ oqueue = "ext" => (orunning' = orunning /\ ostops' = ostops)]_vars

\* the client's first queue was replaced by the caller's running queue and then
\* Close was called: the first queue is stopped, the caller's queue still runs
C21_Witness ==
    /\ obuilt /\ ocloses >= 1
    /\ oqueue = "ext" /\ orunning["ext"]
    /\ ocreated = 1 /\ ~orunning["q1"] /\ ostops["q1"] = 1

(***************************************************************************)
(* Claims about the eviction callback and Get's second look                *)
(***************************************************************************)

\* C23: the eviction callback fires exactly once per entry removed because of
\* expiry, whichever path removes it: for every interleaving of Gets of an
\* expired key and the sweep, a key that was set and is no longer stored has had
\* exactly one callback, with the value that was set; a key that is still
\* stored, or was never set, has had none; and a callback is only ever called
\* for an expired item that the same step removes.
C23_EvictOnce ==
    /\ [](\A k \in CacheKeys :
            /\ evicts[k].n <= 1
            /\ items[k].present => evicts[k].n = 0
            /\ ~lastSet[k].set => evicts[k].n = 0
            /\ (lastSet[k].set /\ ~items[k].present)
                  => (evicts[k].n = 1 /\ evicts[k].val = lastSet[k].val))
    /\ [][\A k \in CacheKeys :
            evicts'[k].n > evicts[k].n
               => /\ items[k].present /\ Expired(items[k], clock)
                  /\ ~items'[k].present
                  /\ evicts'[k].val = items[k].value]_vars

\* an entry was evicted once while a Get that saw it expired still waits for
\* the write lock
C23_Witness ==
    \E k \in CacheKeys :
        /\ evicts[k].n = 1 /\ ~items[k].present /\ lastSet[k].set
        /\ \E u \in CacheUsers : cpc[u] = "upgrade" /\ ckey[u] = k

\* C24: a Get that saw an expired entry under the read lock and then takes the
\* write lock changes the table only by deleting its own key, and only if the
\* key still maps to an expired entry; an entry that a concurrent Set refreshed
\* in between is left as it is, so that a Get started right after returns its
\* value.
C24_Recheck ==
    [][\A u \in CacheUsers :
          (cpc[u] = "upgrade" /\ cpc'[u] = "idle")
             => /\ \A k \in CacheKeys \ {ckey[u]} : items'[k] = items[k]
                /\ items'[ckey[u]] # items[ckey[u]]
                      => (items[ckey[u]].present /\ Expired(items[ckey[u]], clock))
                /\ (items[ckey[u]].present /\ ~Expired(items[ckey[u]], clock))
                      => /\ items'[ckey[u]] = items[ckey[u]]
                         /\ ~Expired(items'[ckey[u]], clock')]_vars

\* a Get found, under the write lock, the entry refreshed by a Set that came
\* after its read, and the refreshed entry is stored
C24_Witness ==
    \E u \in CacheUsers :
        /\ cpc[u] = "idle" /\ ckept[u] /\ ~cvalid[u]
        /\ items[ckey[u]].present /\ ~Expired(items[ckey[u]], clock)
        /\ lastSet[ckey[u]].set /\ items[ckey[u]].value = lastSet[ckey[u]].val

(***************************************************************************)
(* Claims about the worker loop of the RequestQueue                        *)
(***************************************************************************)

\* C25: a worker that dequeued a job whose context is already cancelled puts
\* the cancellation error on the job's result channel without executing the
\* action and is back at its outer select in the same step, no tick taken from
\* its ticker (after an executed job it waits for the ticker instead); the
\* enqueuer of a job that was never executed gets the cancellation error.
C25_CancelledJob ==
    /\ [](\A e \in Enqueuers : (epc[e] = "ret" /\ eran[e] = 0) => eret[e] = CtxErr)
    /\ [][\A w \in Workers :
            (wpc[w] = "got" /\ wpc'[w] # "got" /\ ectx[wjob[w]])
               => /\ eran' = eran
                  /\ eresp'[wjob[w]] = Append(eresp[wjob[w]], CtxErr)
                  /\ wpc'[w] = "select"
                  /\ tickBuf'[w] = tickBuf[w]]_vars
    /\ [][\A w \in Workers :
            (wpc[w] = "run" /\ wpc'[w] # "run") => wpc'[w] = "tick"]_vars

\* a job cancelled while it sat in the backlog was dequeued, its enqueuer got
\* the cancellation error, and the worker is at its outer select with no tick
\* in its ticker channel
C25_Witness ==
    \E e \in Enqueuers, w \in Workers :
        /\ ecancel[e] = "queued" /\ eran[e] = 0
        /\ epc[e] = "ret" /\ eret[e] = CtxErr
        /\ wjob[w] = e /\ wpc[w] = "select" /\ ~tickBuf[w]
        /\ \A v \in Workers \ {w} : wpc[v] = "off"

\* C26 (as claimed): any two jobs that one worker executes one after the other
\* start at least one interval apart, also after an idle spell.  The worker's
\* ticker fires once per interval, so an interval that has passed since the
\* worker last started to execute a job means the ticker fired since then:
\* whenever a worker that executed a job before starts to execute another, its
\* ticker has fired since the start of the earlier one.
C26_Pacing ==
    [][\A w \in Workers :
          (wpc[w] = "got" /\ wpc'[w] = "run" /\ wpace[w] # "never")
             => wpace[w] = "fired"]_vars

\* the places where job e is waiting for a worker or held by one
Holders(e) ==
    Cardinality({i \in 1..Len(qbuf) : qbuf[i] = e})
       + Cardinality({w \in Workers : wjob[w] = e /\ wpc[w] \in {"got", "run"}})

\* C27: every admitted job is dequeued by exactly one worker, whatever the
\* interleaving of the workers: a job whose Enqueue waits for the result is in
\* exactly one place (in the backlog, held by one worker, or its one result is
\* on its result channel); its action is executed at most once and at most one
\* result is ever sent for it; Enqueue returns after exactly one send, the
\* result the worker that held the job sent on the job's own channel; and a
\* worker's send always finds the result channel (capacity 1) empty, so it
\* does not block.
C27_OneWorkerPerJob ==
    /\ [](\A e \in Enqueuers :
            /\ eran[e] <= 1 /\ esent[e] <= 1 /\ Len(eresp[e]) <= 1
            /\ epc[e] \in {"idle", "select"} => (Holders(e) = 0 /\ esent[e] = 0)
            /\ epc[e] = "await" => Holders(e) + esent[e] = 1
            /\ epc[e] = "await" => Len(eresp[e]) = esent[e]
            /\ epc[e] = "ret" => (Holders(e) = 0 /\ eresp[e] = <<>>))
    /\ [][\A e \in Enqueuers :
            /\ esent'[e] > esent[e]
                 => /\ eresp[e] = <<>>
                    /\ \E w \in Workers : wjob[w] = e /\ wpc[w] \in {"got", "run"}
                                           /\ wpc'[w] \notin {"got", "run"}
                    /\ \A f \in Enqueuers \ {e} : eresp'[f] = eresp[f]
            /\ (epc[e] = "await" /\ epc'[e] = "ret")
                 => (esent[e] = 1 /\ eret'[e] = Head(eresp[e]))]_vars

\* two workers each executed one of two jobs and both enqueuers have their
\* job's result
C27_Witness ==
    /\ \A w \in Workers : wpace[w] # "never"
    /\ \A e \in Enqueuers : epc[e] = "ret" /\ eran[e] = 1 /\ esent[e] = 1 /\ eret[e] = eact[e]
    /\ eact["a"] # eact["b"]

(***************************************************************************)
(* Claims about the request queue inside Client.doRequest                  *)
(***************************************************************************)

C29_OnlySuccessStored ==
    [][(items'[URL] # items[URL] /\ items'[URL].present)
          => \E g \in Goroutines :
                /\ ppc[g] = "store" /\ pmethod[g] = "GET"
                /\ pres[g][2] = Nil /\ pres[g][1] = items'[URL].value
                /\ items'[URL].value \in CacheValues]_vars

C31_FailedPoll ==
    /\ [][(spc = "diff" /\ spc' # "diff" /\ sfetched.err)
            => /\ Events' = Events
               /\ state' = state
               /\ spc' = (IF sidx < Len(types) THEN "fetch" ELSE "select")
               /\ sidx' = (IF sidx < Len(types) THEN sidx + 1 ELSE 1)
               /\ eventsClosed' = eventsClosed]_vars
    /\ [](hfail => spc \in {"fetch", "diff"} /\ sidx > 1)
    /\ []((spc = "select" /\ sticker /\ ~subPanic) => ENABLED PollTick)

\* on one tick the read of the first type failed, lastState still holds the
\* players of the initial snapshot, no event is in the channel, and the read of
\* the second type has returned a list
C31_Witness ==
    /\ spc = "diff" /\ sidx = 2 /\ hfail
    /\ types[1] = "players" /\ state.players = {"A"}
    /\ Events = <<>>
    /\ ~sfetched.err /\ Len(sfetched.list) > 0

\* C39 (as claimed): Subscription.Close can be called any number of times, also
\* after the governing context was cancelled, and no call panics: the done
\* channel is never closed a second time.
C39_CloseTwice == ~subPanic

\* C34: the Events channel is closed exactly once, by the poll goroutine when
\* it leaves its select to return, whatever the order of ticks, Close and the
\* cancellation of the context: the closed flag changes only in that step and
\* only from open to closed, the goroutine never runs again afterwards, and no
\* step adds an event to the channel once it is closed.
C34_ClosedOnce ==
    /\ [][eventsClosed' # eventsClosed
            => (~eventsClosed /\ spc = "select" /\ spc' = "exited"
                /\ StopReady(sctx, subDone))]_vars
    /\ [](eventsClosed <=> spc = "exited")
    /\ [][spc = "exited" => spc' = "exited"]_vars
    /\ [][eventsClosed => (Events' = Events \/ Events' = Tail(Events))]_vars

\* after a tick whose event is still in the channel, Close was called, the
\* context was cancelled, and the poll goroutine has returned and closed the
\* channel
C34_Witness ==
    /\ eventsClosed /\ spc = "exited"
    /\ subDone /\ sctx /\ ~subPanic
    /\ npolls = 1 /\ Events # <<>>

\* the entries a batch reports: the players joined, the vehicles new, the log
\* entries of the list
Reported(ev) ==
    IF ev.Type = "none" THEN {}
    ELSE IF ev.Type = "players" THEN Range(ev.Data.joins)
    ELSE Range(ev.Data)

\* C35 (as claimed): the baseline advances before the non-blocking send, so
\* what a batch dropped on a full channel reported is never emitted on a later
\* tick: whatever the next read of the type returns, the batch of the next poll
\* reports no entry that the dropped batch reported.
C35_DroppedNeverEmitted ==
    [][(/\ spc = "diff" /\ spc' # "diff"
        /\ ~sfetched.err
        /\ Len(Events) >= BufferSize)
       => \A f \in Fetches(types[sidx]) :
             Reported(Diff(state', types[sidx], f).event)
                \cap Reported(Diff(state, types[sidx], sfetched).event) = {}]_vars

\* C35 (amended): the diff baseline advances on every successful poll,
\* delivered or not: the step of a poll whose read succeeded records the polled
\* player or vehicle set, or the newer log timestamp, also when the channel is
\* full and the batch is dropped; polled again against the recorded baseline
\* the same data yield no event, and for players and vehicles no next read
\* makes the next poll report an entity that the dropped batch reported.  (A
\* log batch is the whole fetched list, so the entries of a dropped log batch
\* are sent again with the next batch whose first entry is newer.)
C35_BaselineAdvances ==
    [][(/\ spc = "diff" /\ spc' # "diff"
        /\ ~sfetched.err)
       => /\ types[sidx] = "players" => state'.players = Range(sfetched.list)
          /\ types[sidx] = "vehicles" => state'.vehicleSet = Range(sfetched.list)
          /\ (types[sidx] \in LogTypes /\ Len(sfetched.list) > 0)
                => state'[TimeField(types[sidx])] >= sfetched.list[1]
          /\ Diff(state', types[sidx], sfetched).event.Type = "none"
          /\ Len(Events) >= BufferSize => Events' = Events
          /\ types[sidx] \in EntityTypes
                => \A f \in Fetches(types[sidx]) :
                      Reported(Diff(state', types[sidx], f).event)
                         \cap Reported(Diff(state, types[sidx], sfetched).event) = {}]_vars

\* on the one tick the players batch filled the channel and the commands batch
\* was dropped, with nobody reading the channel; the timestamp of the dropped
\* batch is recorded
C35_Witness ==
    /\ npolls = 1 /\ spc = "select" /\ hpc = "off"
    /\ sdropped
    /\ Len(Events) = 1 /\ Events[1].Type = "players"
    /\ types = <<"players", "commands">>
    /\ state.commandTime = 2

\* C38 (as claimed): over every sequence of Start and Stop calls on one
\* RequestQueue, Start, Stop, Start, Stop included, q.stop is closed at most once
\* (no call panics), and whenever q.running is true at least one worker is in
\* its loop, accepting jobs.
C38_StartStop ==
    /\ ~qpanic
    /\ running => \E w \in Workers : wpc[w] \notin {"off", "exited"}

(***************************************************************************)
(* Claims about the end of an Enqueue call, checked under SpecQueueLive    *)
(***************************************************************************)
\* C37 (as claimed): every Enqueue call whose context is cancelled (before a
\* worker began to execute its job) eventually returns the cancellation error,
\* also when its job was already admitted to the backlog and no worker will
\* ever dequeue it (queue never started, stopped, or its workers busy).
C37_CancelledReturns ==
    \A e \in Enqueuers :
        (/\ ectx[e]
         /\ ecancel[e] \in {"select", "blocked", "queued", "got"}
         /\ epc[e] \in {"select", "await"})
            ~> (qpanic \/ (epc[e] = "ret" /\ eret[e] = CtxErr))

(***************************************************************************)
(* Claims about the in-flight table of group.Do, checked under SpecGroup   *)
(***************************************************************************)
\* C33: in-flight records are not retained: g.m holds an entry for key K exactly
\* while the caller that registered it is between its registration and its
\* removal step (so g.m is empty whenever no Do call is in progress), that
\* caller is the only one, and an entry leaves g.m only in the removal step of
\* the caller that registered it, which removes its own call object and never
\* one registered later.
C33_NotRetained ==
    /\ [](\A k \in Keys :
            gm[k] # 0 <=> \E p \in Callers :
                             /\ dpc[p] \in {"exec", "signalled"}
                             /\ dkey[p] = k
                             /\ dcall[p] = gm[k])
    /\ [](\A p, q \in Callers :
            (/\ dpc[p] \in {"exec", "signalled"}
             /\ dpc[q] \in {"exec", "signalled"}
             /\ dkey[p] = dkey[q]) => p = q)
    /\ []((\A p \in Callers : dpc[p] \in {"idle", "ret"}) => \A k \in Keys : gm[k] = 0)
    /\ [][\A k \in Keys :
            (gm[k] # 0 /\ gm'[k] # gm[k]) =>
                \E p \in Callers :
                    /\ dpc[p] = "signalled" /\ dpc'[p] = "ret"
                    /\ dkey[p] = k
                    /\ dcall[p] = gm[k]
                    /\ gm'[k] = 0]_vars

\* the second call for k1 is registered after the first one was removed, a
\* waiter of it is blocked, and the table holds nothing for k2, whose call has
\* returned
C33_Witness ==
    /\ gm["k1"] = 2
    /\ gm["k2"] = 0
    /\ dpc["a"] = "signalled" /\ dkey["a"] = "k1" /\ dcall["a"] = 2
    /\ dpc["b"] = "wait" /\ dcall["b"] = 2
    /\ dpc["c"] = "ret" /\ dkey["c"] = "k2" /\ dcall["c"] = 3

(***************************************************************************)
(* Claims about the counters of ClientMetrics, checked under SpecMetrics   *)
(***************************************************************************)
\* the requests that stand at or inside one of the given locked sections
Pending(sections) ==
    Cardinality({g \in Goroutines :
                   \E s \in sections : mpc[g] \in {"at_" \o s, "in_" \o s}})

\* C32: the counters lose no update: in every reachable state TotalRequests is
\* the number of HTTP calls made less the calls whose request has not yet left
\* its counting section, CacheHits + CacheMisses is the number of lookups made
\* less the lookups not yet counted, and TotalRateLimits <= TotalErrors <=
\* TotalRequests; so once no request is in progress TotalRequests equals the
\* number of HTTP calls made and CacheHits + CacheMisses the number of GET
\* requests that looked the cache up.
C32_NoLostUpdate ==
    /\ metrics.TotalRequests = hcalls - Pending({"req"})
    /\ metrics.CacheHits + metrics.CacheMisses = hlookups - Pending({"hit", "miss"})
    /\ metrics.TotalRateLimits <= metrics.TotalErrors
    /\ metrics.TotalErrors <= metrics.TotalRequests
    /\ (\A g \in Goroutines : mpc[g] = "idle") =>
          /\ metrics.TotalRequests = hcalls
          /\ metrics.CacheHits + metrics.CacheMisses = hlookups

\* after a hit was counted, two concurrent requests were counted and both were
\* answered 429: one holds the lock to count its error, the other waits for it
C32_Witness ==
    /\ metrics.TotalRequests = 2
    /\ metrics.CacheHits = 1
    /\ metrics.TotalErrors = 0
    /\ mstatus["a"] = "limited"
    /\ mpc["a"] = "in_err"
    /\ mpc["b"] = "at_err"
    /\ mstatus["b"] = "limited"
    /\ metricsMu = "a"

(***************************************************************************)
(* Claims about the pre-emptive wait of execute, checked under SpecRL      *)
(***************************************************************************)
\* C36 (as claimed): the pre-emptive rate-limit wait prevents violations: at the
\* moment a request issues its HTTP call, the "global" bucket does not indicate
\* wait (Remaining <= 0 with Reset in the future), also when the response of
\* another request updated the bucket after this request's ShouldWait check and
\* its single sleep.
C36_NoCallWhileLimited ==
    [][\A r \in Requests :
          (xpc[r] = "http" /\ xpc'[r] = "done")
              => ~ShouldWait(limits, "global", clock).ok]_vars

(***************************************************************************)
(* Claims about cancelled request contexts, checked under SpecCancel       *)
(***************************************************************************)
\* C40 (as claimed): cancellation does not leak across coalesced callers: a GET
\* caller whose own context is not cancelled never receives the cancellation
\* error of the context of the coalesced leader, the caller whose request and
\* queue job are executed.
C40_NoCancelLeak ==
    \A g \in Goroutines :
        (ppc[g] = "ret" /\ pmethod[g] = "GET" /\ ~pctx[g]) => pret[g].err # CtxErr

====
